---- MODULE Spec2Model ----
(***************************************************************************)
(* External sort-and-search engine of dbms.c: the disk-resident doubly     *)
(* linked list (CreateLinkedListFromFile, ReadNodeFromList,                *)
(* WriteNodeToList, ConvertLinkedListToFile), the two external sorts       *)
(* (SortBubble, SortMerge with MergeSortLinkedListIterative and            *)
(* MergeTwoSortedListsWithLimit) and the binary searches (SearchBinary,    *)
(* SearchBinaryRange).                                                     *)
(*                                                                         *)
(* Files are modelled by their contents: a record store is the sequence of *)
(* its records, the list file is its metadata block plus a function from   *)
(* byte offsets to nodes.  Every loop of the source advances one iteration *)
(* per action; pc is the position of the single thread of control.         *)
(***************************************************************************)
EXTENDS Integers, Sequences, FiniteSets, TLC

\* ---------------------------------------------------------------- bounds
MaxKey == 3        \* productKey values 1..MaxKey
MaxLen == 4        \* longest enumerated input store
ShortLen == 3      \* longest store of the runs with failing I/O
MaxIO == 120       \* the count of list-file accesses stops growing here

\* ------------------------------------------------------ program constants
NONE == -1                 \* the "no node" offset
MetaSize == 32             \* sizeof(LinkedListFileMetadata)
HeaderSize == 24           \* sizeof(DoublyLinkedNodeHeader)
RecordSize == 4            \* recordSize argument: four-byte records
maxIterations == 64        \* round cap of MergeSortLinkedListIterative

\* --------------------------------------------------------------- records
\* A record is <<productKey, orderNumber>>: the comparator looks at the
\* first component only, the second stands for the remaining bytes.  The
\* enumerated stores number their records, so that records with the same
\* key differ in bytes.
Numbered(keys) == [i \in 1..Len(keys) |-> <<keys[i], i>>]

\* Search keys also range strictly below and above every stored key.
SearchKeys == (0..(MaxKey + 1)) \X {0}

BoundedSeq(S, n) == UNION {[1..m -> S] : m \in 0..n}

\* The 5-record scenario store [5,3,1,4,2], a 7-record store with equal
\* keys, so that uneven sublists occur in two merge rounds, a 6-record
\* store that is already sorted and a store with identical records.
ScenarioStore == <<<<5, 0>>, <<3, 0>>, <<1, 0>>, <<4, 0>>, <<2, 0>>>>
LongStore == Numbered(<<2, 3, 2, 1, 3, 1, 2>>)
SortedStore == Numbered(<<1, 1, 2, 2, 2, 3>>)
DuplicateStore == <<<<2, 0>>, <<1, 0>>, <<2, 0>>, <<1, 0>>>>

InputStores ==
    {Numbered(keys) : keys \in BoundedSeq(1..MaxKey, MaxLen)}
        \cup {ScenarioStore, LongStore, SortedStore, DuplicateStore}

\* CompareSalesByProductKey: three-way comparison by productKey.
CompareSalesByProductKey(record1, record2) ==
    IF record1[1] < record2[1] THEN -1
    ELSE IF record1[1] > record2[1] THEN 1
    ELSE 0

compareFunction(a, b) == CompareSalesByProductKey(a, b)

\* ------------------------------------------------------------ list file
NodeHeader(prev, next, size) ==
    [prevOffset |-> prev, nextOffset |-> next, dataSize |-> size]

\* Local header variables are declared without initializer in the source.
UninitHeader == NodeHeader(NONE, NONE, 0)

\* A node on disk: header fields followed by the payload.
DiskNode(hdr, data) ==
    [prevOffset |-> hdr.prevOffset, nextOffset |-> hdr.nextOffset,
     dataSize |-> hdr.dataSize, data |-> data]

HeaderOf(node) == NodeHeader(node.prevOffset, node.nextOffset, node.dataSize)

\* ReadNodeFromList: succeeds iff the offset is non-negative and a whole
\* node lies at it.
ReadNodeFromList(nds, nodeOffset) ==
    nodeOffset >= 0 /\ nodeOffset \in DOMAIN nds

\* A header write that also clears the payload bytes behind the header.
WriteHeaderClearingPayload(nds, nodeOffset, hdr) ==
    [o \in DOMAIN nds \cup {nodeOffset} |->
        IF o = nodeOffset THEN DiskNode(hdr, <<0, 0>>) ELSE nds[o]]

\* WriteNodeToList with dataBuffer == NULL: header only, payload untouched
\* (a write past the end of the file leaves unwritten payload bytes).
WriteHeaderToList(nds, nodeOffset, hdr) ==
    [o \in DOMAIN nds \cup {nodeOffset} |->
        IF o = nodeOffset
        THEN DiskNode(hdr, IF o \in DOMAIN nds THEN nds[o].data ELSE <<0, 0>>)
        ELSE nds[o]]

\* fwrite of the payload alone at nodeOffset + sizeof(header).
WritePayload(nds, nodeOffset, data) ==
    [nds EXCEPT ![nodeOffset].data = data]

EmptyMetadata ==
    [headOffset |-> NONE, tailOffset |-> NONE, nodeCount |-> 0,
     recordSize |-> RecordSize]

VARIABLES
    op,             \* the entry point being run
    pc,             \* position of the thread of control
    inputFile,      \* the input record store
    outputExists,   \* the output record store has been created
    outputFile,     \* records of the output record store
    listExists,     \* the temporary list file exists
    metaWritten,    \* the metadata block of the list file has been written
    metaOnDisk,     \* metadata block at offset 0 of the list file
    nodes,          \* list file: offset -> node
    nodesCreated,   \* result of CreateLinkedListFromFile in the caller
    metadata,       \* the caller's in-memory LinkedListFileMetadata
    returnValue,    \* value returned by the entry point
    build,          \* locals of CreateLinkedListFromFile
    flat,           \* locals of ConvertLinkedListToFile
    bub,            \* locals of the bubble-sort loops of SortBubble
    ms,             \* locals of MergeSortLinkedListIterative
    mg,             \* locals of MergeTwoSortedListsWithLimit
    sb,             \* locals of SearchBinary
    sr,             \* locals of SearchBinaryRange
    listIO,         \* number of list-file accesses made by the sort routine
    env,            \* the run's environment: may I/O calls fail, and how the
                    \* list file handed to a list routine is malformed
    faultLog,       \* the I/O calls that have failed so far, by site
    heap,           \* the record buffers allocated and not yet freed, and
                    \* the largest number of them alive at one time so far
    report,         \* the branch SearchInReport2/SearchInReport5 took after
                    \* SearchBinaryRange and the records it listed
    cut             \* the pair being merged as the chain was when
                    \* MergeSortLinkedListIterative counted it out: the
                    \* offsets of sublist 1, of sublist 2 and of the nodes
                    \* behind them, and the offsets the bounded merge has read
                    \* or written since

vars == <<op, pc, inputFile, outputExists, outputFile, listExists,
          metaWritten, metaOnDisk, nodes, nodesCreated, metadata,
          returnValue, build, flat, bub, ms, mg, sb, sr, listIO, env,
          faultLog, heap, cut, report>>

\* A malformed list file: the nextOffset of the node with index node is
\* overwritten by the offset of the node with index next, or by -1.
NoDamage == [node |-> NONE, next |-> NONE]

\* Offset of the node with index i (from 0) in the file Build writes:
\* the metadata block, then the nodes one behind the other.
NodeOffset(i) == MetaSize + i * (HeaderSize + RecordSize)

\* The malformations of a list of at most n nodes.
Damages(n) ==
    {NoDamage} \cup [node : 0..(n - 1), next : {NONE} \cup 0..(n - 1)]

\* The list file after the malformation dmg.
Damaged(nds, dmg) ==
    IF dmg = NoDamage THEN nds
    ELSE [nds EXCEPT ![NodeOffset(dmg.node)].nextOffset =
                         IF dmg.next = NONE THEN NONE
                         ELSE NodeOffset(dmg.next)]

\* k more accesses to the list file.
CountIO(n, k) == IF n + k > MaxIO THEN MaxIO ELSE n + k

\* Any of the first k I/O calls of a step may fail when the environment
\* lets I/O fail; 0 stands for no failure.
FaultPoints(k) == IF env.faulty THEN 0..k ELSE {0}

\* The log after a step in which the call at site failed (f > 0) or none did.
Logged(site, f) == IF f = 0 THEN faultLog ELSE faultLog \cup {site}

\* malloc(recordSize) of the buffers bufs: they are alive from here on.
Malloc(h, bufs) ==
    LET live == h.live \cup bufs
        n == Cardinality(live)
    IN [live |-> live, peak |-> IF n > h.peak THEN n ELSE h.peak]

\* The cleanup that frees nothing.
FreeNothing(h, bufs) == h

\* free() of the buffers bufs in the cleanup before the single return.
Free(h, bufs) == [h EXCEPT !.live = @ \ bufs]

BuildBuffers == {"build.dataBuffer"}
FlattenBuffers == {"flatten.dataBuffer"}
MergeBuffers == {"merge.data1", "merge.data2"}
BubbleBuffers == {"bubble.data1", "bubble.data2"}
SearchBuffers == {"search.currentRecord"}
RangeBuffers == {"range.currentRecord"}

\* The offsets reached from pos by following nextOffset, at most fuel of them.
RECURSIVE ChainFrom(_, _, _)
ChainFrom(nds, pos, fuel) ==
    IF pos = NONE \/ fuel = 0 \/ pos \notin DOMAIN nds
    THEN <<>>
    ELSE <<pos>> \o ChainFrom(nds, nds[pos].nextOffset, fuel - 1)

NoCut == [a |-> <<>>, b |-> <<>>, later |-> <<>>, touched |-> {}]

NoReport == [branch |-> "none", listed |-> <<>>]

Ops == {"SortBubble", "SortMerge", "RoundTrip", "MergeList"}

BuildInit ==
    [currentOffset |-> 0, previousOffset |-> NONE, nodesCreated |-> 0,
     metadata |-> EmptyMetadata, inputPos |-> 0, endOfInput |-> FALSE,
     errorOccurred |-> 0]
FlatInit ==
    [metadata |-> EmptyMetadata, currentOffset |-> 0, recordsWritten |-> 0,
     nodesProcessed |-> 0]
BubInit ==
    [outerIndex |-> 0, innerIndex |-> 0, currentOffset |-> 0,
     swapOccurred |-> 0, sortComplete |-> 0, errorOccurred |-> 0]
MsInit ==
    [headOffset |-> NONE, nodeCount |-> 0,
     currentHead |-> NONE, currentTail |-> NONE, sublistSize |-> 1,
     iteration |-> 0, mergedListHead |-> NONE, mergedListTail |-> NONE,
     currentPos |-> NONE, numMerges |-> 0, nextPairStart |-> NONE,
     tempPos |-> NONE, foundEnd |-> 0,
     mergedHead |-> NONE, mergedTail |-> NONE, errorOccurred |-> 0,
     success |-> 0, sortedHeadOffset |-> NONE, sortedTailOffset |-> NONE]
MgInit ==
    [left1Offset |-> NONE, left2Offset |-> NONE,
     left1Count |-> 0, left2Count |-> 0, current1 |-> NONE,
     current2 |-> NONE, next1 |-> NONE, next2 |-> NONE, count1 |-> 0,
     count2 |-> 0, mergedHead |-> NONE, mergedTail |-> NONE,
     data1Valid |-> 0, data2Valid |-> 0, data1 |-> <<0, 0>>,
     data2 |-> <<0, 0>>, node1Header |-> UninitHeader,
     node2Header |-> UninitHeader, errorOccurred |-> 0]
SbInit ==
    [searchKey |-> <<0, 0>>, totalRecords |-> 0, leftBound |-> 0,
     rightBound |-> 0, found |-> 0, searchComplete |-> 0,
     resultPosition |-> NONE, returnValue |-> -1, reads |-> 0]
SrInit ==
    [active |-> FALSE, firstMatch |-> NONE, totalRecords |-> 0,
     checkPosition |-> 0, rangeStart |-> 0, rangeEnd |-> 0,
     continueSearchLeft |-> 1, continueSearchRight |-> 1,
     startPosition |-> NONE, endPosition |-> NONE, returnValue |-> -1]

\* The state before the entry point runs, for input stores drawn from
\* stores and environments drawn from envs.  The sorts cover the list
\* routines on well-formed lists of two nodes or more, so the direct call
\* of MergeSortLinkedListIterative takes those only when malformed.
InitWith(stores, envs) ==
    /\ op \in Ops
    /\ pc = "start"
    /\ inputFile \in stores
    /\ env \in envs
    /\ faultLog = {}
    /\ heap = [live |-> {}, peak |-> 0]
    /\ cut = NoCut
    /\ report = NoReport
    /\ (op = "MergeList" /\ env.damage = NoDamage) => Len(inputFile) <= 1
    /\ env.damage # NoDamage =>
           /\ op \in {"MergeList", "RoundTrip"}
           /\ env.damage.node < Len(inputFile)
           /\ env.damage.next < Len(inputFile)
    /\ outputExists = FALSE
    /\ outputFile = <<>>
    /\ listExists = FALSE
    /\ metaWritten = FALSE
    /\ metaOnDisk = EmptyMetadata
    /\ nodes = <<>>
    /\ nodesCreated = 0
    /\ metadata = EmptyMetadata
    /\ returnValue = -1
    /\ build = BuildInit
    /\ flat = FlatInit
    /\ bub = BubInit
    /\ ms = MsInit
    /\ mg = MgInit
    /\ sb = SbInit
    /\ sr = SrInit
    /\ listIO = 0

\* Every I/O call succeeds and every list file is the one Build wrote.
Init == InitWith(InputStores, {[faulty |-> FALSE, damage |-> NoDamage]})

\* ------------------------------------------- CreateLinkedListFromFile
\* Lines 267-314: open the source, create the list file ("wb+" truncates),
\* reserve the metadata block.  When either file cannot be opened the
\* function returns -1.
BuildOpen ==
    /\ pc = "start"
    /\ \E f \in FaultPoints(2) :
          /\ faultLog' = Logged(IF f = 1 THEN "build.open_input"
                                ELSE "build.open_list", f)
          /\ IF f = 0
             THEN /\ listExists' = TRUE
                  /\ metaWritten' = FALSE
                  /\ metaOnDisk' = EmptyMetadata
                  /\ nodes' = <<>>
                  /\ build' = [BuildInit EXCEPT !.currentOffset = MetaSize]
                  /\ heap' = Malloc(heap, BuildBuffers)
                  /\ pc' = "build"
                  /\ UNCHANGED nodesCreated
             ELSE /\ build' = [BuildInit EXCEPT !.errorOccurred = 1,
                                                !.nodesCreated = -1]
                  /\ nodesCreated' = -1
                  /\ heap' = Free(Malloc(heap, BuildBuffers), BuildBuffers)
                  /\ pc' = "built"
                  /\ UNCHANGED <<listExists, metaWritten, metaOnDisk, nodes>>
    /\ UNCHANGED <<op, env, report, cut, inputFile, outputExists, outputFile, metadata,
                   returnValue, flat, bub, ms, mg, sb, sr, listIO>>

\* Build without the backward patch: every nextOffset stays -1.
PatchPreviousMissing(nds, previousOffset, currentOffset) == nds

\* Lines 343-349: the backward patch: the previous node's nextOffset
\* becomes the offset of the node just written.
PatchPrevious(nds, previousOffset, currentOffset) ==
    IF previousOffset # NONE
    THEN [nds EXCEPT ![previousOffset].nextOffset = currentOffset]
    ELSE nds

\* Lines 316-355: one iteration of the read loop: append a node, patch the
\* previous node's nextOffset, advance.  A failed fread of the source ends
\* the loop like the end of the file (1); a failed write of the header (2)
\* or of the payload (3) sets the error flag; the result of the fwrite of
\* the backward patch (4) is not looked at.
BuildAppend ==
    /\ pc = "build"
    /\ build.inputPos < Len(inputFile)
    /\ ~build.endOfInput
    /\ build.errorOccurred = 0
    /\ \E f \in FaultPoints(4) :
          LET dataBuffer == inputFile[build.inputPos + 1]
              cur == build.currentOffset
              prev == build.previousOffset
              nodeHeader == NodeHeader(prev, NONE, RecordSize)
              appended == [o \in DOMAIN nodes \cup {cur} |->
                             IF o = cur THEN DiskNode(nodeHeader, dataBuffer)
                             ELSE nodes[o]]
              patched == IF f = 4 THEN appended
                         ELSE PatchPrevious(appended, prev, cur)
          IN /\ f = 4 => prev # NONE
             /\ faultLog' = Logged(CASE f = 1 -> "build.read_input"
                                     [] f = 2 -> "build.write_header"
                                     [] f = 3 -> "build.write_payload"
                                     [] OTHER -> "build.patch", f)
             /\ IF f = 1
                THEN /\ build' = [build EXCEPT !.endOfInput = TRUE]
                     /\ UNCHANGED nodes
                ELSE IF f \in {2, 3}
                THEN /\ build' = [build EXCEPT !.errorOccurred = 1,
                                               !.nodesCreated = -1,
                                               !.inputPos = @ + 1]
                     /\ UNCHANGED nodes
                ELSE /\ nodes' = patched
                     /\ build' = [build EXCEPT
                            !.metadata.headOffset =
                                IF build.metadata.nodeCount = 0 THEN cur ELSE @,
                            !.metadata.tailOffset = cur,
                            !.metadata.nodeCount = @ + 1,
                            !.previousOffset = cur,
                            !.currentOffset = cur + HeaderSize + RecordSize,
                            !.inputPos = @ + 1]
    /\ UNCHANGED <<op, env, report, cut, heap, pc, inputFile, outputExists, outputFile,
                   listExists, metaWritten, metaOnDisk, nodesCreated, metadata,
                   returnValue, flat, bub, ms, mg, sb, sr, listIO>>

\* The metadata block written whether or not an error occurred.
CommitMetadataAlways(errorOccurred) == TRUE

\* Line 358: the metadata block is written only when no error occurred.
CommitMetadata(errorOccurred) == errorOccurred = 0

\* Lines 357-377: the loop is over: without an error write the metadata
\* block at offset 0 (the result of that fwrite is not looked at) and
\* return the node count; with one return -1.
BuildFinish ==
    /\ pc = "build"
    /\ \/ build.inputPos = Len(inputFile)
       \/ build.endOfInput
       \/ build.errorOccurred = 1
    /\ \E f \in FaultPoints(1) :
          /\ f = 1 => build.errorOccurred = 0
          /\ faultLog' = Logged("build.write_metadata", f)
          /\ IF CommitMetadata(build.errorOccurred)
             THEN /\ metaWritten' = (f = 0)
                  /\ metaOnDisk' = IF f = 0 THEN build.metadata ELSE metaOnDisk
             ELSE UNCHANGED <<metaWritten, metaOnDisk>>
          /\ IF build.errorOccurred = 0
             THEN /\ build' = [build EXCEPT
                                   !.nodesCreated = build.metadata.nodeCount]
                  /\ nodesCreated' = build.metadata.nodeCount
             ELSE /\ nodesCreated' = -1
                  /\ UNCHANGED build
    /\ heap' = Free(heap, BuildBuffers)
    /\ pc' = "built"
    /\ UNCHANGED <<op, env, report, cut, inputFile, outputExists, outputFile, listExists,
                   nodes, metadata, returnValue, flat, bub, ms, mg, sb, sr,
                   listIO>>

\* --------------------------------------------- ConvertLinkedListToFile
\* fread of the metadata block: the block as written, or the zero-filled
\* hole before the first node when it never was; fails on an empty file.
MetadataReadable == metaWritten \/ DOMAIN nodes # {}
MetadataRead ==
    IF metaWritten THEN metaOnDisk
    ELSE [headOffset |-> 0, tailOffset |-> 0, nodeCount |-> 0, recordSize |-> 0]

\* The conversion writing to the path the records were read from.
ConvertDestinationInput(inputFileName, outputFileName) == inputFileName

\* Lines 4043, 4095, 4164, 4289: the callers pass their outputFileName as
\* the destination of ConvertLinkedListToFile; the source of Build,
\* inputFileName, is opened "rb" only (line 294).
ConvertDestination(inputFileName, outputFileName) == outputFileName

WritesOutput == ConvertDestination("input", "output") = "output"

\* Lines 517-562: open the list file (1), read the metadata (2), create the
\* output file, which "wb" truncates (3), and start at the head; a failure
\* of any of these returns -1.
FlattenOpen ==
    /\ pc = "flatten"
    /\ \E f \in FaultPoints(3) :
          /\ faultLog' = Logged(CASE f = 1 -> "flatten.open_list"
                                  [] f = 2 -> "flatten.read_metadata"
                                  [] OTHER -> "flatten.open_output", f)
          /\ IF f = 0 /\ listExists /\ MetadataReadable
             THEN /\ flat' = [metadata |-> MetadataRead,
                              currentOffset |-> MetadataRead.headOffset,
                              recordsWritten |-> 0, nodesProcessed |-> 0]
                  /\ IF WritesOutput
                     THEN /\ outputExists' = TRUE
                          /\ outputFile' = <<>>
                          /\ UNCHANGED inputFile
                     ELSE /\ inputFile' = <<>>
                          /\ UNCHANGED <<outputExists, outputFile>>
                  /\ heap' = Malloc(heap, FlattenBuffers)
                  /\ pc' = "flatten_loop"
             ELSE /\ flat' = [FlatInit EXCEPT !.recordsWritten = -1]
                  /\ heap' = IF f = 3 /\ listExists /\ MetadataReadable
                              THEN Free(Malloc(heap, FlattenBuffers),
                                        FlattenBuffers)
                              ELSE heap
                  /\ pc' = "flattened"
                  /\ UNCHANGED <<inputFile, outputExists, outputFile>>
    /\ UNCHANGED <<op, env, report, cut, listExists, metaWritten, metaOnDisk,
                   nodes, nodesCreated, metadata, returnValue, build, bub, ms,
                   mg, sb, sr, listIO>>

\* The cap letting one node more through than the metadata counts.
BelowNodeCapInclusive(nodesProcessed, maxNodes) == nodesProcessed <= maxNodes

\* Line 566: the traversal is capped by the node count of the metadata.
BelowNodeCap(nodesProcessed, maxNodes) == nodesProcessed < maxNodes

\* Lines 564-580: one iteration of the traversal: read the node (1), write
\* its payload to the output (2), follow nextOffset; a failure of either
\* makes the result -1.
FlattenStep ==
    /\ pc = "flatten_loop"
    /\ flat.currentOffset # NONE
    /\ flat.recordsWritten # -1
    /\ BelowNodeCap(flat.nodesProcessed, flat.metadata.nodeCount)
    /\ \E f \in FaultPoints(2) :
          /\ f = 2 => ReadNodeFromList(nodes, flat.currentOffset)
          /\ faultLog' = Logged(IF f = 1 THEN "flatten.read_node"
                                ELSE "flatten.write_record", f)
          /\ IF f = 0 /\ ReadNodeFromList(nodes, flat.currentOffset)
             THEN /\ IF WritesOutput
                     THEN /\ outputFile' =
                                 Append(outputFile,
                                        nodes[flat.currentOffset].data)
                          /\ UNCHANGED inputFile
                     ELSE /\ inputFile' =
                                 Append(inputFile,
                                        nodes[flat.currentOffset].data)
                          /\ UNCHANGED outputFile
                  /\ flat' = [flat EXCEPT
                         !.recordsWritten = @ + 1,
                         !.currentOffset = nodes[flat.currentOffset].nextOffset,
                         !.nodesProcessed = @ + 1]
             ELSE /\ flat' = [flat EXCEPT !.recordsWritten = -1]
                  /\ UNCHANGED <<inputFile, outputFile>>
    /\ UNCHANGED <<op, env, report, cut, heap, pc, outputExists, listExists,
                   metaWritten, metaOnDisk, nodes, nodesCreated, metadata,
                   returnValue, build, bub, ms, mg, sb, sr, listIO>>

\* Lines 583-601: the traversal is over (end of chain, node-count cap or
\* error): close the files and return recordsWritten.
FlattenFinish ==
    /\ pc = "flatten_loop"
    /\ \/ flat.currentOffset = NONE
       \/ flat.recordsWritten = -1
       \/ ~BelowNodeCap(flat.nodesProcessed, flat.metadata.nodeCount)
    /\ heap' = Free(heap, FlattenBuffers)
    /\ pc' = "flattened"
    /\ UNCHANGED <<op, env, report, cut, faultLog, inputFile, outputExists, outputFile, listExists,
                   metaWritten, metaOnDisk, nodes, nodesCreated, metadata,
                   returnValue, build, flat, bub, ms, mg, sb, sr, listIO>>

\* The cleanup without the call of remove.
AfterRemoveSkipped(exists) == exists

\* Lines 4044, 4105, 4165 and 4305: remove(linkedListFileName): the
\* temporary list file, closed by then, is gone.
AfterRemove(exists) == FALSE

\* -------------------------------------- round trip: Build, then Flatten
\* CreateLinkedListFromFile followed directly by ConvertLinkedListToFile,
\* as on the single-record path of the sorts, for a store of any length;
\* the list file may be malformed when ConvertLinkedListToFile gets it.
RoundTripFlatten ==
    /\ pc = "built"
    /\ op = "RoundTrip"
    /\ nodes' = Damaged(nodes, env.damage)
    /\ pc' = "flatten"
    /\ UNCHANGED <<op, env, report, cut, heap, faultLog, inputFile, outputExists, outputFile,
                   listExists, metaWritten, metaOnDisk, nodesCreated, metadata,
                   returnValue, build, flat, bub, ms, mg, sb, sr, listIO>>

RoundTripReturn ==
    /\ pc = "flattened"
    /\ op = "RoundTrip"
    /\ returnValue' = flat.recordsWritten
    /\ listExists' = AfterRemove(listExists)
    /\ pc' = "done"
    /\ UNCHANGED <<op, env, report, cut, heap, faultLog, inputFile, outputExists, outputFile, metaWritten,
                   metaOnDisk, nodes, nodesCreated, metadata, build, flat,
                   bub, ms, mg, sb, sr, listIO>>

\* ----------------------------------------------------------- SortBubble
\* Lines 4157-4198: after Build.  No node (or a failed Build) is an error:
\* fall through to the cleanup and return -1.  One node: convert straight
\* back.  Otherwise open the list file (1) and read its metadata (2); a
\* failure of either skips the sort and the conversion.
SortBubbleDispatch ==
    /\ pc = "built"
    /\ op = "SortBubble"
    /\ \E f \in FaultPoints(2) :
          /\ f # 0 => nodesCreated > 1
          /\ faultLog' = Logged(IF f = 1 THEN "sort.open_list"
                                ELSE "sort.read_metadata", f)
          /\ IF nodesCreated <= 0 \/ f # 0
             THEN /\ returnValue' = -1
                  /\ listExists' = AfterRemove(listExists)
                  /\ heap' = IF nodesCreated > 1
                              THEN Free(Malloc(heap, BubbleBuffers),
                                        BubbleBuffers)
                              ELSE heap
                  /\ pc' = "done"
                  /\ UNCHANGED <<metadata, bub>>
             ELSE IF nodesCreated = 1
             THEN /\ pc' = "flatten"
                  /\ UNCHANGED heap
                  /\ UNCHANGED <<returnValue, listExists, metadata, bub>>
             ELSE /\ metadata' = MetadataRead
                  /\ bub' = BubInit
                  /\ heap' = Malloc(heap, BubbleBuffers)
                  /\ pc' = "bubble_outer"
                  /\ UNCHANGED <<returnValue, listExists>>
    /\ UNCHANGED <<op, env, report, cut, inputFile, outputExists, outputFile, metaWritten,
                   metaOnDisk, nodes, nodesCreated, build, flat, ms, mg, sb,
                   sr, listIO>>

\* Lines 4201-4212: the outer loop condition holds: start a pass at the head.
BubblePassBegin ==
    /\ pc = "bubble_outer"
    /\ bub.outerIndex < metadata.nodeCount - 1
    /\ bub.sortComplete = 0
    /\ bub.errorOccurred = 0
    /\ bub' = [bub EXCEPT !.swapOccurred = 0,
                          !.currentOffset = metadata.headOffset,
                          !.innerIndex = 0]
    /\ pc' = "bubble_inner"
    /\ UNCHANGED <<op, env, report, cut, heap, faultLog, inputFile, outputExists, outputFile, listExists,
                   metaWritten, metaOnDisk, nodes, nodesCreated, metadata,
                   returnValue, build, flat, ms, mg, sb, sr, listIO>>

\* The payload swap of lines 4230-4250: data2 to the current node, data1 to
\* its successor; headers are not written.
SwapPayloads(nds, currentOffset, nextOffset) ==
    WritePayload(WritePayload(nds, currentOffset, nds[nextOffset].data),
                 nextOffset, nds[currentOffset].data)

\* The test of line 4229 inverted: pairs in order are swapped.
OutOfOrderInverted(data1, data2) == compareFunction(data1, data2) < 0

\* compareFunction(data1, data2) > 0 of line 4229.
OutOfOrder(data1, data2) == compareFunction(data1, data2) > 0

\* Lines 4215-4272: one iteration of the inner loop: read the current node
\* (1) and its successor (2), compare, swap the payloads when out of order
\* (writes 3 and 4), advance.  Any failure sets the error flag; when the
\* second write of a swap fails both nodes hold the successor's payload.
BubbleInner ==
    /\ pc = "bubble_inner"
    /\ bub.innerIndex < metadata.nodeCount - bub.outerIndex - 1
    /\ bub.errorOccurred = 0
    /\ \E f \in FaultPoints(4) :
       LET cur == bub.currentOffset
           nxt == nodes[cur].nextOffset
           failed == [bub EXCEPT !.errorOccurred = 1, !.innerIndex = @ + 1]
       IN /\ faultLog' = Logged(IF f <= 2 THEN "bubble.read"
                                ELSE "bubble.write", f)
          /\ IF f = 1 \/ ~ReadNodeFromList(nodes, cur)
             THEN /\ f <= 1
                  /\ bub' = failed
                  /\ listIO' = CountIO(listIO, 1)
                  /\ UNCHANGED nodes
             ELSE IF nxt = NONE
             THEN /\ f = 0
                  /\ bub' = [bub EXCEPT !.innerIndex = @ + 1]
                  /\ listIO' = CountIO(listIO, 1)
                  /\ UNCHANGED nodes
             ELSE IF f = 2 \/ ~ReadNodeFromList(nodes, nxt)
             THEN /\ f \in {0, 2}
                  /\ bub' = failed
                  /\ listIO' = CountIO(listIO, 2)
                  /\ UNCHANGED nodes
             ELSE IF OutOfOrder(nodes[cur].data, nodes[nxt].data)
             THEN IF f = 0
                  THEN /\ nodes' = SwapPayloads(nodes, cur, nxt)
                       /\ bub' = [bub EXCEPT !.swapOccurred = 1,
                                             !.currentOffset = nxt,
                                             !.innerIndex = @ + 1]
                       /\ listIO' = CountIO(listIO, 4)
                  ELSE /\ nodes' = IF f = 3 THEN nodes
                                   ELSE WritePayload(nodes, cur, nodes[nxt].data)
                       /\ bub' = [failed EXCEPT !.currentOffset = nxt]
                       /\ listIO' = CountIO(listIO, f)
             ELSE /\ f = 0
                  /\ bub' = [bub EXCEPT !.currentOffset = nxt,
                                        !.innerIndex = @ + 1]
                  /\ listIO' = CountIO(listIO, 2)
                  /\ UNCHANGED nodes
    /\ UNCHANGED <<op, env, report, cut, heap, pc, inputFile, outputExists, outputFile,
                   listExists, metaWritten, metaOnDisk, nodesCreated, metadata,
                   returnValue, build, flat, ms, mg, sb, sr>>

\* The early termination left out: no pass completes the sort.
PassCompletesNever(swapOccurred) == FALSE

\* Line 4276: a pass in which no swap occurred completes the sort.
PassCompletes(swapOccurred) == swapOccurred = 0

\* Lines 4275-4279 and the outer loop increment: a pass without a swap
\* completes the sort.
BubblePassEnd ==
    /\ pc = "bubble_inner"
    /\ ~(bub.innerIndex < metadata.nodeCount - bub.outerIndex - 1
          /\ bub.errorOccurred = 0)
    /\ bub' = [bub EXCEPT
           !.sortComplete = IF PassCompletes(bub.swapOccurred) THEN 1 ELSE @,
           !.outerIndex = @ + 1]
    /\ pc' = "bubble_outer"
    /\ UNCHANGED <<op, env, report, cut, heap, faultLog, inputFile, outputExists, outputFile, listExists,
                   metaWritten, metaOnDisk, nodes, nodesCreated, metadata,
                   returnValue, build, flat, ms, mg, sb, sr, listIO>>

\* The conversion run whatever the error flag says.
ConvertAfterBubbleAlways(errorOccurred, created) == created > 1

\* Line 4288: the list is converted back only when no error occurred.
ConvertAfterBubble(errorOccurred, created) ==
    errorOccurred = 0 /\ created > 1

\* Lines 4282-4307: the outer loop is over: close the list file; without
\* an error convert the list back to a record store, with one remove the
\* list file and return -1.
BubbleSortDone ==
    /\ pc = "bubble_outer"
    /\ ~(bub.outerIndex < metadata.nodeCount - 1 /\ bub.sortComplete = 0
          /\ bub.errorOccurred = 0)
    /\ IF ConvertAfterBubble(bub.errorOccurred, nodesCreated)
       THEN /\ pc' = "flatten"
            /\ UNCHANGED heap
            /\ UNCHANGED <<returnValue, listExists>>
       ELSE /\ returnValue' = -1
            /\ listExists' = AfterRemove(listExists)
            /\ heap' = Free(heap, BubbleBuffers)
            /\ pc' = "done"
    /\ UNCHANGED <<op, env, report, cut, faultLog, inputFile, outputExists, outputFile, metaWritten,
                   metaOnDisk, nodes, nodesCreated, metadata, build, flat,
                   bub, ms, mg, sb, sr, listIO>>

\* Lines 4164-4166 and 4289-4307: the value returned after the conversion.
\* On the single-record path it is the conversion's result as it is;
\* otherwise a result that is not positive becomes -1.  The temporary list
\* file is removed.
SortBubbleReturn ==
    /\ pc = "flattened"
    /\ op = "SortBubble"
    /\ returnValue' = IF nodesCreated = 1 THEN flat.recordsWritten
                      ELSE IF flat.recordsWritten > 0 THEN flat.recordsWritten
                      ELSE -1
    /\ listExists' = AfterRemove(listExists)
    /\ heap' = Free(heap, BubbleBuffers)
    /\ pc' = "done"
    /\ UNCHANGED <<op, env, report, cut, faultLog, inputFile, outputExists, outputFile, metaWritten,
                   metaOnDisk, nodes, nodesCreated, metadata, build, flat,
                   bub, ms, mg, sb, sr, listIO>>

\* ------------------------------------------------------------ SortMerge
\* Lines 4035-4064: after Build.  No node (or a failed Build) is an error:
\* fall through to the cleanup and return -1.  One node: convert straight
\* back.  Otherwise open the list file (1) and read its metadata (2); a
\* failure of either skips the sort and the conversion.
SortMergeDispatch ==
    /\ pc = "built"
    /\ op = "SortMerge"
    /\ \E f \in FaultPoints(2) :
          /\ f # 0 => nodesCreated > 1
          /\ faultLog' = Logged(IF f = 1 THEN "sort.open_list"
                                ELSE "sort.read_metadata", f)
          /\ IF nodesCreated <= 0 \/ f # 0
             THEN /\ returnValue' = -1
                  /\ listExists' = AfterRemove(listExists)
                  /\ pc' = "done"
                  /\ UNCHANGED metadata
             ELSE IF nodesCreated = 1
             THEN /\ pc' = "flatten"
                  /\ UNCHANGED <<returnValue, listExists, metadata>>
             ELSE /\ metadata' = MetadataRead
                  /\ pc' = "ms_enter"
                  /\ UNCHANGED <<returnValue, listExists>>
    /\ UNCHANGED <<op, env, report, cut, heap, inputFile, outputExists, outputFile, metaWritten,
                   metaOnDisk, nodes, nodesCreated, build, flat, bub, ms, mg,
                   sb, sr, listIO>>

\* MergeSortLinkedListIterative called directly on a list file: the list
\* as built of at most one node (the sorts call it for two nodes or more
\* only), or a malformed list.
MergeListCall ==
    /\ pc = "built"
    /\ op = "MergeList"
    /\ nodes' = Damaged(nodes, env.damage)
    /\ metadata' = MetadataRead
    /\ pc' = "ms_enter"
    /\ UNCHANGED <<op, env, report, cut, heap, faultLog, inputFile, outputExists, outputFile,
                   listExists, metaWritten, metaOnDisk, nodesCreated,
                   returnValue, build, flat, bub, ms, mg, sb, sr, listIO>>

\* ----------------------------------------- MergeSortLinkedListIterative
\* Line 1009: the base case, taken here for the empty list only.
BaseCaseEmptyOnly(nodeCount) == nodeCount <= 0

\* Line 1009: the base case: empty or single node.
BaseCase(nodeCount) == nodeCount <= 1

\* Lines 991-1019: entry.  The outputs start as (headOffset, -1); with at
\* most one node the function succeeds at once, the tail being the head
\* when there is one node; otherwise the tail search starts at the head.

MSEnter ==
    /\ pc = "ms_enter"
    /\ LET headOffset == metadata.headOffset
           nodeCount == metadata.nodeCount
           entry == [MsInit EXCEPT !.headOffset = headOffset,
                                   !.nodeCount = nodeCount,
                                   !.currentHead = headOffset,
                                   !.sortedHeadOffset = headOffset]
       IN IF BaseCase(nodeCount)
          THEN /\ ms' = [entry EXCEPT
                     !.success = 1,
                     !.sortedTailOffset =
                         IF nodeCount = 1 THEN headOffset ELSE NONE]
               /\ pc' = "ms_returned"
          ELSE /\ ms' = [entry EXCEPT !.tempPos = headOffset,
                                      !.currentTail = headOffset]
               /\ pc' = IF headOffset # NONE THEN "ms_findtail" ELSE "ms_round"
    /\ UNCHANGED <<op, env, report, cut, heap, faultLog, inputFile, outputExists, outputFile, listExists,
                   metaWritten, metaOnDisk, nodes, nodesCreated, metadata,
                   returnValue, build, flat, bub, mg, sb, sr, listIO>>

\* Lines 1021-1036: one iteration of the initial tail search.
MSFindTail ==
    /\ pc = "ms_findtail"
    /\ \E f \in FaultPoints(1) :
       LET pos == ms.tempPos
       IN /\ faultLog' = Logged("merge.read", f)
          /\ IF f = 0 /\ ReadNodeFromList(nodes, pos)
             THEN IF nodes[pos].nextOffset = NONE
                  THEN /\ ms' = [ms EXCEPT !.currentTail = pos, !.foundEnd = 1]
                       /\ pc' = "ms_round"
                  ELSE /\ ms' = [ms EXCEPT !.currentTail = pos,
                                           !.tempPos = nodes[pos].nextOffset]
                       /\ pc' = "ms_findtail"
             ELSE /\ ms' = [ms EXCEPT !.errorOccurred = 1, !.foundEnd = 1]
                  /\ pc' = "ms_round"
    /\ listIO' = CountIO(listIO, 1)
    /\ UNCHANGED <<op, env, report, cut, heap, inputFile, outputExists, outputFile, listExists,
                   metaWritten, metaOnDisk, nodes, nodesCreated, metadata,
                   returnValue, build, flat, bub, mg, sb, sr>>

\* The round loop entered also when sublistSize equals nodeCount.
RoundConditionInclusive ==
    /\ ms.sublistSize <= ms.nodeCount
    /\ ms.errorOccurred = 0
    /\ ms.iteration < maxIterations

\* The condition of the round loop, line 1041.
RoundCondition ==
    /\ ms.sublistSize < ms.nodeCount
    /\ ms.errorOccurred = 0
    /\ ms.iteration < maxIterations

\* Lines 1041-1048: start a round at the cached head.
MSRoundBegin ==
    /\ pc = "ms_round"
    /\ RoundCondition
    /\ ms' = [ms EXCEPT !.mergedListHead = NONE, !.mergedListTail = NONE,
                        !.currentPos = ms.currentHead, !.numMerges = 0,
                        !.iteration = @ + 1]
    /\ pc' = "ms_pairs"
    /\ UNCHANGED <<op, env, report, cut, heap, faultLog, inputFile, outputExists, outputFile, listExists,
                   metaWritten, metaOnDisk, nodes, nodesCreated, metadata,
                   returnValue, build, flat, bub, mg, sb, sr, listIO>>

\* The counting loops of lines 1062-1069 and 1098-1105: follow nextOffset
\* from pos until size nodes are counted or the chain ends.  reads counts
\* the reads of the step so far; read number f fails.
RECURSIVE SkipNodes(_, _, _, _, _, _)
SkipNodes(nds, pos, count, size, reads, f) ==
    IF count < size /\ pos # NONE
    THEN IF ReadNodeFromList(nds, pos) /\ reads + 1 # f
         THEN SkipNodes(nds, nds[pos].nextOffset, count + 1, size, reads + 1, f)
         ELSE [pos |-> pos, count |-> count, error |-> 1, reads |-> reads + 1]
    ELSE [pos |-> pos, count |-> count, error |-> 0, reads |-> reads]

\* The tail search of lines 1077-1091 over the last, unpaired sublist.
RECURSIVE FindSublistTail(_, _, _, _, _)
FindSublistTail(nds, tempPos, tail, reads, f) ==
    IF tempPos = NONE
    THEN [tail |-> tail, error |-> 0, reads |-> reads]
    ELSE IF ~ReadNodeFromList(nds, tempPos) \/ reads + 1 = f
    THEN [tail |-> tail, error |-> 1, reads |-> reads + 1]
    ELSE IF nds[tempPos].nextOffset = NONE
    THEN [tail |-> tempPos, error |-> 0, reads |-> reads + 1]
    ELSE FindSublistTail(nds, nds[tempPos].nextOffset, tempPos, reads + 1, f)

\* Lines 1051-1113: one pair.  Count sublist 1 to find the start of
\* sublist 2.  Without a second sublist the rest of the chain is the run to
\* append; otherwise count sublist 2, which caches the start of the next
\* pair, and call the bounded merge (also when a count has failed).
MSPair ==
    /\ pc = "ms_pairs"
    /\ ms.currentPos # NONE
    /\ ms.errorOccurred = 0
    /\ \E f \in FaultPoints(ms.sublistSize + ms.nodeCount) :
       LET left1Start == ms.currentPos
           skip1 == SkipNodes(nodes, left1Start, 0, ms.sublistSize, 0, f)
           left2Start == skip1.pos
           tail == FindSublistTail(nodes, left1Start, left1Start,
                                   skip1.reads, f)
           skip2 == IF skip1.error = 0
                    THEN SkipNodes(nodes, left2Start, 0, ms.sublistSize,
                                   skip1.reads, f)
                    ELSE [pos |-> left2Start, count |-> 0, error |-> 0,
                          reads |-> skip1.reads]
       IN /\ faultLog' = Logged("merge.read", f)
          /\ IF left2Start = NONE
             THEN /\ f <= tail.reads
                  /\ ms' = [ms EXCEPT
                        !.mergedHead = left1Start,
                        !.mergedTail = tail.tail,
                        !.nextPairStart = NONE,
                        !.errorOccurred =
                            IF skip1.error = 1 \/ tail.error = 1 THEN 1 ELSE 0]
                  /\ listIO' = CountIO(listIO, tail.reads)
                  /\ cut' = [NoCut EXCEPT
                        !.a = ChainFrom(nodes, left1Start, ms.nodeCount)]
                  /\ pc' = "ms_append"
                  /\ UNCHANGED mg
             ELSE /\ f <= skip2.reads
                  /\ ms' = [ms EXCEPT
                        !.mergedHead = NONE,
                        !.mergedTail = NONE,
                        !.nextPairStart = skip2.pos,
                        !.errorOccurred =
                            IF skip1.error = 1 \/ skip2.error = 1 THEN 1 ELSE 0]
                  /\ mg' = [MgInit EXCEPT !.left1Offset = left1Start,
                                          !.left1Count = skip1.count,
                                          !.left2Offset = left2Start,
                                          !.left2Count = skip2.count,
                                          !.current1 = left1Start,
                                          !.current2 = left2Start]
                  /\ listIO' = CountIO(listIO, skip2.reads)
                  /\ cut' = [a |-> ChainFrom(nodes, left1Start, skip1.count),
                              b |-> ChainFrom(nodes, left2Start, skip2.count),
                              later |-> ChainFrom(nodes, skip2.pos,
                                                  ms.nodeCount),
                              touched |-> {}]
                  /\ pc' = "mg_init"
    /\ UNCHANGED <<op, env, report, heap, inputFile, outputExists, outputFile, listExists,
                   metaWritten, metaOnDisk, nodes, nodesCreated, metadata,
                   returnValue, build, flat, bub, sb, sr>>

\* ----------------------------------------- MergeTwoSortedListsWithLimit
\* Lines 621-666: entry: pre-read the first node of each sublist.
MGInit ==
    /\ pc = "mg_init"
    /\ \E f \in FaultPoints(2) :
       LET want1 == mg.count1 < mg.left1Count /\ mg.current1 # NONE
           reads1 == IF want1 THEN 1 ELSE 0
           ok1 == ReadNodeFromList(nodes, mg.current1) /\ f # 1
           m1 == IF ~want1 THEN mg
                 ELSE IF ok1
                 THEN [mg EXCEPT !.node1Header = HeaderOf(nodes[mg.current1]),
                                 !.data1 = nodes[mg.current1].data,
                                 !.next1 = nodes[mg.current1].nextOffset,
                                 !.data1Valid = 1]
                 ELSE [mg EXCEPT !.errorOccurred = 1]
           want2 == m1.errorOccurred = 0 /\ m1.count2 < m1.left2Count
                    /\ m1.current2 # NONE
           reads2 == IF want2 THEN 1 ELSE 0
           ok2 == ReadNodeFromList(nodes, m1.current2) /\ f # reads1 + 1
           m2 == IF ~want2 THEN m1
                 ELSE IF ok2
                 THEN [m1 EXCEPT !.node2Header = HeaderOf(nodes[m1.current2]),
                                 !.data2 = nodes[m1.current2].data,
                                 !.next2 = nodes[m1.current2].nextOffset,
                                 !.data2Valid = 1]
                 ELSE [m1 EXCEPT !.errorOccurred = 1]
       IN /\ f <= reads1 + reads2
          /\ faultLog' = Logged("merge.read", f)
          /\ mg' = m2
          /\ cut' = [cut EXCEPT !.touched =
                        @ \cup (IF want1 THEN {mg.current1} ELSE {})
                          \cup (IF want2 THEN {m1.current2} ELSE {})]
          /\ listIO' = CountIO(listIO, reads1 + reads2)
    /\ heap' = Malloc(heap, MergeBuffers)
    /\ pc' = "mg_loop"
    /\ UNCHANGED <<op, env, report, inputFile, outputExists, outputFile, listExists,
                   metaWritten, metaOnDisk, nodes, nodesCreated, metadata,
                   returnValue, build, flat, bub, ms, sb, sr>>

\* The condition of the merge loop, line 669.
MergeCondition ==
    /\ mg.errorOccurred = 0
    /\ (mg.count1 < mg.left1Count \/ mg.count2 < mg.left2Count)

\* The comparison of line 681 inverted: the larger record is taken first.
TakeLeftOnCompareInverted(data1, data2) == compareFunction(data1, data2) >= 0

\* Line 681: on a tie the node of sublist 1 is taken.
TakeLeftOnCompare(data1, data2) == compareFunction(data1, data2) <= 0

\* On a tie the node of sublist 2 is taken.
TakeFrom1PreferRight(m) ==
    IF m.count1 >= m.left1Count \/ m.data1Valid = 0 THEN 0
    ELSE IF m.count2 >= m.left2Count \/ m.data2Valid = 0 THEN 1
    ELSE IF compareFunction(m.data1, m.data2) < 0 THEN 1 ELSE 0

\* Lines 674-682: which sublist gives the next node.
TakeFrom1(m) ==
    IF m.count1 >= m.left1Count \/ m.data1Valid = 0 THEN 0
    ELSE IF m.count2 >= m.left2Count \/ m.data2Valid = 0 THEN 1
    ELSE IF TakeLeftOnCompare(m.data1, m.data2) THEN 1 ELSE 0

\* The next node read whenever the chain goes on, whatever the count.
MoreRemainByTopology(count, leftCount) == TRUE

\* Lines 695 and 710: the next node of a sublist is read only while the
\* sublist's count is below its limit.
MoreRemain(count, leftCount) == count < leftCount

\* Lines 686-700: take the node of sublist 1, advance by the cached next
\* offset and read the following node while the count allows; the read
\* fails when f = 1.
AdvanceList1(nds, m, f) ==
    LET cur == m.next1
        cnt == m.count1 + 1
        taken == [m EXCEPT !.current1 = cur, !.count1 = cnt, !.data1Valid = 0]
    IN IF MoreRemain(cnt, m.left1Count) /\ cur # NONE
       THEN IF ReadNodeFromList(nds, cur) /\ f # 1
            THEN [m |-> [taken EXCEPT !.node1Header = HeaderOf(nds[cur]),
                                      !.data1 = nds[cur].data,
                                      !.next1 = nds[cur].nextOffset,
                                      !.data1Valid = 1],
                  reads |-> 1]
            ELSE [m |-> [taken EXCEPT !.errorOccurred = 1], reads |-> 1]
       ELSE [m |-> taken, reads |-> 0]

\* Lines 701-717: the same for sublist 2.
AdvanceList2(nds, m, f) ==
    LET cur == m.next2
        cnt == m.count2 + 1
        taken == [m EXCEPT !.current2 = cur, !.count2 = cnt, !.data2Valid = 0]
    IN IF MoreRemain(cnt, m.left2Count) /\ cur # NONE
       THEN IF ReadNodeFromList(nds, cur) /\ f # 1
            THEN [m |-> [taken EXCEPT !.node2Header = HeaderOf(nds[cur]),
                                      !.data2 = nds[cur].data,
                                      !.next2 = nds[cur].nextOffset,
                                      !.data2Valid = 1],
                  reads |-> 1]
            ELSE [m |-> [taken EXCEPT !.errorOccurred = 1], reads |-> 1]
       ELSE [m |-> taken, reads |-> 0]

\* The selected node linked forward only: its prevOffset stays as read.
LinkedBehindForwardOnly(selectedHeader, mergedTail) ==
    NodeHeader(selectedHeader.prevOffset, NONE, selectedHeader.dataSize)

\* Lines 743-745: the header of a node appended behind the tail of the
\* merged run: it points back to that tail and is the new end.
LinkedBehind(selectedHeader, mergedTail) ==
    NodeHeader(mergedTail, NONE, selectedHeader.dataSize)

\* Lines 719-759: append the selected node to the merged run.  The first
\* node becomes head and tail with both links -1; a later node is linked
\* behind the tail: tail.nextOffset, then its own prevOffset and -1 as
\* nextOffset.  done counts the accesses of the step so far; access
\* number f fails.
AppendSelected(nds, m, selectedOffset, selectedHeader, done, f) ==
    IF m.mergedHead = NONE
    THEN IF f = done + 1
         THEN [nodes |-> nds,
               m |-> [m EXCEPT !.mergedHead = selectedOffset,
                               !.mergedTail = selectedOffset,
                               !.errorOccurred = 1],
               io |-> 1]
         ELSE [nodes |-> WriteHeaderToList(nds, selectedOffset,
                             NodeHeader(NONE, NONE, selectedHeader.dataSize)),
               m |-> [m EXCEPT !.mergedHead = selectedOffset,
                               !.mergedTail = selectedOffset],
               io |-> 1]
    ELSE IF ~ReadNodeFromList(nds, m.mergedTail) \/ f = done + 1
    THEN [nodes |-> nds, m |-> [m EXCEPT !.errorOccurred = 1], io |-> 1]
    ELSE LET tailHeader == [HeaderOf(nds[m.mergedTail])
                               EXCEPT !.nextOffset = selectedOffset]
             linked == WriteHeaderToList(nds, m.mergedTail, tailHeader)
         IN IF f = done + 2
            THEN [nodes |-> nds, m |-> [m EXCEPT !.errorOccurred = 1],
                  io |-> 2]
            ELSE IF f = done + 3
            THEN [nodes |-> linked, m |-> [m EXCEPT !.errorOccurred = 1],
                  io |-> 3]
            ELSE [nodes |-> WriteHeaderToList(linked, selectedOffset,
                                LinkedBehind(selectedHeader, m.mergedTail)),
                  m |-> [m EXCEPT !.mergedTail = selectedOffset],
                  io |-> 3]

\* Lines 669-760: one iteration of the merge loop.
MGStep ==
    /\ pc = "mg_loop"
    /\ MergeCondition
    /\ \E f \in FaultPoints(4) :
       LET takeFrom1 == TakeFrom1(mg)
           selectedOffset == IF takeFrom1 = 1 THEN mg.current1 ELSE mg.current2
           selectedHeader == IF takeFrom1 = 1 THEN mg.node1Header
                             ELSE mg.node2Header
           adv == IF takeFrom1 = 1 THEN AdvanceList1(nodes, mg, f)
                  ELSE AdvanceList2(nodes, mg, f)
           app == IF adv.m.errorOccurred = 0 /\ selectedOffset # NONE
                  THEN AppendSelected(nodes, adv.m, selectedOffset,
                                      selectedHeader, adv.reads, f)
                  ELSE [nodes |-> nodes, m |-> adv.m, io |-> 0]
           tailRead == adv.m.mergedHead # NONE /\ f = adv.reads + 1
       IN /\ f <= adv.reads + app.io
          /\ faultLog' = Logged(IF f <= adv.reads \/ tailRead
                                THEN "merge.read" ELSE "merge.write", f)
          /\ nodes' = app.nodes
          /\ mg' = app.m
          /\ cut' = [cut EXCEPT !.touched =
                        @ \cup (IF adv.reads = 1
                                THEN {IF takeFrom1 = 1 THEN mg.next1
                                      ELSE mg.next2}
                                ELSE {})
                          \cup (IF app.io > 0
                                THEN {selectedOffset} \cup
                                     (IF adv.m.mergedHead # NONE
                                      THEN {adv.m.mergedTail} ELSE {})
                                ELSE {})]
          /\ listIO' = CountIO(listIO, adv.reads + app.io)
    /\ UNCHANGED <<op, env, report, heap, pc, inputFile, outputExists, outputFile,
                   listExists, metaWritten, metaOnDisk, nodesCreated, metadata,
                   returnValue, build, flat, bub, ms, sb, sr>>

\* Lines 763-774 and 1108-1111: the merge loop is over: hand the merged
\* head and tail to the caller, or make the caller fail.
MGReturn ==
    /\ pc = "mg_loop"
    /\ ~MergeCondition
    /\ ms' = IF mg.errorOccurred = 0
             THEN [ms EXCEPT !.mergedHead = mg.mergedHead,
                             !.mergedTail = mg.mergedTail]
             ELSE [ms EXCEPT !.errorOccurred = 1]
    /\ heap' = Free(heap, MergeBuffers)
    /\ pc' = "ms_append"
    /\ UNCHANGED <<op, env, report, cut, faultLog, inputFile, outputExists, outputFile, listExists,
                   metaWritten, metaOnDisk, nodes, nodesCreated, metadata,
                   returnValue, build, flat, bub, mg, sb, sr, listIO>>

\* Line 1128: the head of the appended run points back to the tail of the
\* result list.
LinkBack(headHeader, mergedListTail) ==
    [headHeader EXCEPT !.prevOffset = mergedListTail]

\* The appended run left uncounted.
CountMergeNever(numMerges) == numMerges

\* Line 1143: numMerges++ for every run handed to the append step.
CountMerge(numMerges) == numMerges + 1

\* Lines 1115-1146: append the merged pair to the result list behind the
\* cached tail (reads 1 and 2, writes 3 and 4, each attempted only when
\* the one before succeeded) and move to the cached start of the next pair.
MSAppend ==
    /\ pc = "ms_append"
    /\ \E f \in FaultPoints(4) :
       LET doAppend == ms.errorOccurred = 0 /\ ms.mergedHead # NONE
           first == ms.mergedListHead = NONE
           read1 == ReadNodeFromList(nodes, ms.mergedListTail) /\ f # 1
           read2 == ReadNodeFromList(nodes, ms.mergedHead) /\ f # 2
           tailHeader == [HeaderOf(nodes[ms.mergedListTail])
                             EXCEPT !.nextOffset = ms.mergedHead]
           linked == WriteHeaderToList(nodes, ms.mergedListTail, tailHeader)
           headHeader == LinkBack(HeaderOf(nodes[ms.mergedHead]),
                                  ms.mergedListTail)
           failed == [ms EXCEPT !.errorOccurred = 1,
                                !.numMerges = CountMerge(@),
                                !.currentPos = ms.nextPairStart]
       IN /\ faultLog' = Logged(IF f <= 2 THEN "merge.read"
                                ELSE "merge.write", f)
          /\ IF ~doAppend
             THEN /\ f = 0
                  /\ ms' = [ms EXCEPT !.currentPos = ms.nextPairStart]
                  /\ UNCHANGED <<nodes, listIO>>
             ELSE IF first
             THEN /\ f = 0
                  /\ ms' = [ms EXCEPT !.mergedListHead = ms.mergedHead,
                                      !.mergedListTail = ms.mergedTail,
                                      !.numMerges = CountMerge(@),
                                      !.currentPos = ms.nextPairStart]
                  /\ UNCHANGED <<nodes, listIO>>
             ELSE IF ~read1
             THEN /\ f <= 1
                  /\ ms' = failed
                  /\ listIO' = CountIO(listIO, 1)
                  /\ UNCHANGED nodes
             ELSE IF ~read2
             THEN /\ f \in {0, 2}
                  /\ ms' = failed
                  /\ listIO' = CountIO(listIO, 2)
                  /\ UNCHANGED nodes
             ELSE IF f = 3
             THEN /\ ms' = failed
                  /\ listIO' = CountIO(listIO, 3)
                  /\ UNCHANGED nodes
             ELSE IF f = 4
             THEN /\ ms' = failed
                  /\ listIO' = CountIO(listIO, 4)
                  /\ nodes' = linked
             ELSE /\ nodes' = WriteHeaderToList(linked, ms.mergedHead,
                                                headHeader)
                  /\ ms' = [ms EXCEPT !.mergedListTail = ms.mergedTail,
                                      !.numMerges = CountMerge(@),
                                      !.currentPos = ms.nextPairStart]
                  /\ listIO' = CountIO(listIO, 4)
    /\ pc' = "ms_pairs"
    /\ UNCHANGED <<op, env, report, cut, heap, inputFile, outputExists, outputFile, listExists,
                   metaWritten, metaOnDisk, nodesCreated, metadata,
                   returnValue, build, flat, bub, mg, sb, sr>>

\* The tail of the round before kept as the cached tail.
CachedTailStale(mergedListTail, currentTail) == currentTail

\* Line 1151: the tail of the list the round has built becomes the cached
\* tail.
CachedTail(mergedListTail, currentTail) == mergedListTail

\* Lines 1149-1162: the round is over: cache the new head and tail, double
\* the sublist size; a round without a merge is an error.
MSRoundEnd ==
    /\ pc = "ms_pairs"
    /\ ~(ms.currentPos # NONE /\ ms.errorOccurred = 0)
    /\ ms' = IF ms.errorOccurred = 0
             THEN [ms EXCEPT !.currentHead = ms.mergedListHead,
                             !.currentTail =
                                 CachedTail(ms.mergedListTail, ms.currentTail),
                             !.sublistSize = @ * 2,
                             !.errorOccurred =
                                 IF ms.numMerges = 0 THEN 1 ELSE 0]
             ELSE ms
    /\ pc' = "ms_round"
    /\ UNCHANGED <<op, env, report, cut, heap, faultLog, inputFile, outputExists, outputFile, listExists,
                   metaWritten, metaOnDisk, nodes, nodesCreated, metadata,
                   returnValue, build, flat, bub, mg, sb, sr, listIO>>

\* Lines 1165-1183: the round loop is over: reaching the round cap is an
\* error; without an error return the cached head and tail.
MSReturn ==
    /\ pc = "ms_round"
    /\ ~RoundCondition
    /\ LET err == IF ms.iteration >= maxIterations THEN 1
                  ELSE ms.errorOccurred
       IN ms' = IF err = 0
                THEN [ms EXCEPT !.sortedHeadOffset = ms.currentHead,
                                !.sortedTailOffset = ms.currentTail,
                                !.success = 1]
                ELSE [ms EXCEPT !.errorOccurred = 1]
    /\ pc' = "ms_returned"
    /\ UNCHANGED <<op, env, report, cut, heap, faultLog, inputFile, outputExists, outputFile, listExists,
                   metaWritten, metaOnDisk, nodes, nodesCreated, metadata,
                   returnValue, build, flat, bub, mg, sb, sr, listIO>>

\* The write-back with the tail offset left as Build wrote it.
SortedMetadataHeadOnly(meta, sortedHeadOffset, sortedTailOffset) ==
    [meta EXCEPT !.headOffset = sortedHeadOffset]

\* Lines 4075-4076: the metadata with the sorted list's head and tail.
SortedMetadata(meta, sortedHeadOffset, sortedTailOffset) ==
    [meta EXCEPT !.headOffset = sortedHeadOffset,
                 !.tailOffset = sortedTailOffset]

\* SortMerge lines 4073-4095: on success write the sorted head and tail
\* back into the metadata block (the result of that fwrite is not looked
\* at) and convert the list; otherwise remove the list file and return -1.
SortMergeWriteBack ==
    /\ pc = "ms_returned"
    /\ op = "SortMerge"
    /\ \E f \in FaultPoints(1) :
          /\ f = 1 => (ms.success = 1 /\ ms.sortedHeadOffset # NONE)
          /\ faultLog' = Logged("merge.write_back", f)
          /\ IF ms.success = 1 /\ ms.sortedHeadOffset # NONE
             THEN /\ metadata' = SortedMetadata(metadata, ms.sortedHeadOffset,
                                                ms.sortedTailOffset)
                  /\ metaOnDisk' = IF f = 0 THEN metadata' ELSE metaOnDisk
                  /\ metaWritten' = IF f = 0 THEN TRUE ELSE metaWritten
                  /\ pc' = "flatten"
                  /\ UNCHANGED <<returnValue, listExists>>
             ELSE /\ returnValue' = -1
                  /\ listExists' = AfterRemove(listExists)
                  /\ pc' = "done"
                  /\ UNCHANGED <<metadata, metaOnDisk, metaWritten>>
    /\ UNCHANGED <<op, env, report, cut, heap, inputFile, outputExists, outputFile, nodes,
                   nodesCreated, build, flat, bub, ms, mg, sb, sr, listIO>>

\* Lines 4043-4045 and 4095-4107: the value returned after the conversion.
\* On the single-record path it is the conversion's result as it is;
\* otherwise a result that is not positive becomes -1.  The temporary list
\* file is removed.
SortMergeReturn ==
    /\ pc = "flattened"
    /\ op = "SortMerge"
    /\ returnValue' = IF nodesCreated = 1 THEN flat.recordsWritten
                      ELSE IF flat.recordsWritten > 0 THEN flat.recordsWritten
                      ELSE -1
    /\ listExists' = AfterRemove(listExists)
    /\ pc' = "done"
    /\ UNCHANGED <<op, env, report, cut, heap, faultLog, inputFile, outputExists, outputFile, metaWritten,
                   metaOnDisk, nodes, nodesCreated, metadata, build, flat,
                   bub, ms, mg, sb, sr, listIO>>

\* The direct call of MergeSortLinkedListIterative returns its status.
MergeListReturn ==
    /\ pc = "ms_returned"
    /\ op = "MergeList"
    /\ returnValue' = ms.success
    /\ pc' = "done"
    /\ UNCHANGED <<op, env, report, cut, heap, faultLog, inputFile, outputExists, outputFile, listExists,
                   metaWritten, metaOnDisk, nodes, nodesCreated, metadata,
                   build, flat, bub, ms, mg, sb, sr, listIO>>

\* --------------------------------------------------------- SearchBinary
\* fread of one record at index position of a record store (fseek to
\* position * recordSize): succeeds iff a whole record lies there.
RecordReadable(store, position) == position >= 0 /\ position < Len(store)
RecordAt(store, position) == store[position + 1]

\* A caller searches the file at the output path for one key.
SearchBinaryCall ==
    /\ pc = "done"
    /\ \E key \in SearchKeys :
          sb' = [SbInit EXCEPT !.searchKey = key]
    /\ sr' = SrInit
    /\ pc' = "sb_enter"
    /\ UNCHANGED <<op, env, report, cut, heap, faultLog, inputFile, outputExists, outputFile, listExists,
                   metaWritten, metaOnDisk, nodes, nodesCreated, metadata,
                   returnValue, build, flat, bub, ms, mg, listIO>>

\* Lines 3759-3818: entry: resultPosition = -1; open the file (failure
\* returns -1); an empty file returns 0 at once; otherwise the bounds are
\* [0, totalRecords - 1].
SBEnter ==
    /\ pc = "sb_enter"
    /\ \E f \in FaultPoints(1) :
          /\ faultLog' = Logged("search.open", f)
          /\ IF f = 1 \/ ~outputExists
             THEN /\ sb' = [sb EXCEPT !.resultPosition = NONE,
                                      !.returnValue = -1]
                  /\ pc' = "sb_returned"
                  /\ UNCHANGED heap
             ELSE IF Len(outputFile) = 0
             THEN /\ sb' = [sb EXCEPT !.resultPosition = NONE,
                                      !.returnValue = 0,
                                      !.totalRecords = 0,
                                      !.searchComplete = 1]
                  /\ pc' = "sb_returned"
                  /\ UNCHANGED heap
             ELSE /\ sb' = [sb EXCEPT !.resultPosition = NONE,
                                      !.totalRecords = Len(outputFile),
                                      !.leftBound = 0,
                                      !.rightBound = Len(outputFile) - 1]
                  /\ heap' = Malloc(heap, SearchBuffers)
                  /\ pc' = "sb_loop"
    /\ UNCHANGED <<op, env, report, cut, inputFile, outputExists, outputFile, listExists,
                   metaWritten, metaOnDisk, nodes, nodesCreated, metadata,
                   returnValue, build, flat, bub, ms, mg, sr, listIO>>

\* Line 3823: the probe position.
MiddlePosition(leftBound, rightBound) ==
    leftBound + (rightBound - leftBound) \div 2

\* The probe with the two halves exchanged.
ProbeResultExchanged(s, middlePosition, comparisonResult) ==
    IF comparisonResult = 0
    THEN [s EXCEPT !.resultPosition = middlePosition, !.found = 1,
                   !.returnValue = 1]
    ELSE IF comparisonResult > 0
    THEN [s EXCEPT !.rightBound = middlePosition - 1]
    ELSE [s EXCEPT !.leftBound = middlePosition + 1]

\* Lines 3830-3845: the outcome of a probe: a match ends the search, a
\* smaller key continues in the left half, a larger one in the right half.
ProbeResult(s, middlePosition, comparisonResult) ==
    IF comparisonResult = 0
    THEN [s EXCEPT !.resultPosition = middlePosition, !.found = 1,
                   !.returnValue = 1]
    ELSE IF comparisonResult < 0
    THEN [s EXCEPT !.rightBound = middlePosition - 1]
    ELSE [s EXCEPT !.leftBound = middlePosition + 1]

\* A failed read reported as "not found".
ReadFailedNotFound(s) == [s EXCEPT !.returnValue = 0, !.reads = @ + 1]

\* Lines 3825-3828: a failed read of the middle record ends the search
\* with the error result.
ReadFailed(s) == [s EXCEPT !.returnValue = -1, !.reads = @ + 1]

\* Lines 3821-3847: one probe: read the middle record and narrow the
\* bounds by the sign of compareFunction(searchKey, record).
SBProbe ==
    /\ pc = "sb_loop"
    /\ sb.found = 0
    /\ sb.leftBound <= sb.rightBound
    /\ \E f \in FaultPoints(1) :
       LET middlePosition == MiddlePosition(sb.leftBound, sb.rightBound)
           comparisonResult ==
               compareFunction(sb.searchKey, RecordAt(outputFile, middlePosition))
       IN /\ faultLog' = Logged("search.read", f)
          /\ IF f = 1 \/ ~RecordReadable(outputFile, middlePosition)
             THEN /\ sb' = ReadFailed(sb)
                  /\ heap' = Free(heap, SearchBuffers)
                  /\ pc' = "sb_returned"
             ELSE /\ sb' = [ProbeResult(sb, middlePosition, comparisonResult)
                               EXCEPT !.reads = @ + 1]
                  /\ pc' = "sb_loop"
                  /\ UNCHANGED heap
    /\ UNCHANGED <<op, env, report, cut, inputFile, outputExists, outputFile, listExists,
                   metaWritten, metaOnDisk, nodes, nodesCreated, metadata,
                   returnValue, build, flat, bub, ms, mg, sr, listIO>>

\* Lines 3850-3863: the loop is over: not found unless found.
SBReturn ==
    /\ pc = "sb_loop"
    /\ ~(sb.found = 0 /\ sb.leftBound <= sb.rightBound)
    /\ sb' = [sb EXCEPT !.returnValue = IF sb.found = 0 THEN 0 ELSE @]
    /\ heap' = Free(heap, SearchBuffers)
    /\ pc' = "sb_returned"
    /\ UNCHANGED <<op, env, report, cut, faultLog, inputFile, outputExists, outputFile, listExists,
                   metaWritten, metaOnDisk, nodes, nodesCreated, metadata,
                   returnValue, build, flat, bub, ms, mg, sr, listIO>>

\* The direct caller of SearchBinary has its result.
SearchBinaryDone ==
    /\ pc = "sb_returned"
    /\ ~sr.active
    /\ pc' = "searched"
    /\ UNCHANGED <<op, env, report, cut, heap, faultLog, inputFile, outputExists, outputFile, listExists,
                   metaWritten, metaOnDisk, nodes, nodesCreated, metadata,
                   returnValue, build, flat, bub, ms, mg, sb, sr, listIO>>

\* ---------------------------------------------------- SearchBinaryRange
\* Lines 3879-3908: entry: both positions -1, then SearchBinary for any
\* one occurrence of the key.
SearchBinaryRangeCall ==
    /\ pc = "done"
    /\ \E key \in SearchKeys :
          sb' = [SbInit EXCEPT !.searchKey = key]
    /\ sr' = [SrInit EXCEPT !.active = TRUE]
    /\ pc' = "sb_enter"
    /\ UNCHANGED <<op, env, report, cut, heap, faultLog, inputFile, outputExists, outputFile, listExists,
                   metaWritten, metaOnDisk, nodes, nodesCreated, metadata,
                   returnValue, build, flat, bub, ms, mg, listIO>>

\* Lines 3910-3938: without a match return SearchBinary's result; with one
\* open the file (failure returns -1) and start the left expansion below
\* the match.
SRAfterSearch ==
    /\ pc = "sb_returned"
    /\ sr.active
    /\ \E f \in FaultPoints(1) :
          /\ f = 1 => sb.returnValue = 1
          /\ faultLog' = Logged("range.open", f)
          /\ IF sb.returnValue # 1
             THEN /\ sr' = [sr EXCEPT !.returnValue = sb.returnValue]
                  /\ pc' = "searched"
                  /\ UNCHANGED heap
             ELSE IF f = 1
             THEN /\ sr' = [sr EXCEPT !.firstMatch = sb.resultPosition,
                                      !.returnValue = -1]
                  /\ pc' = "searched"
                  /\ UNCHANGED heap
             ELSE /\ sr' = [sr EXCEPT !.firstMatch = sb.resultPosition,
                                      !.totalRecords = Len(outputFile),
                                      !.rangeStart = sb.resultPosition,
                                      !.checkPosition = sb.resultPosition - 1]
                  /\ heap' = Malloc(heap, RangeBuffers)
                  /\ pc' = "sr_left"
    /\ UNCHANGED <<op, env, report, cut, inputFile, outputExists, outputFile, listExists,
                   metaWritten, metaOnDisk, nodes, nodesCreated, metadata,
                   returnValue, build, flat, bub, ms, mg, sb, listIO>>

\* Lines 3940-3955: one step of the left expansion; a failed read stops
\* the expansion and leaves the error flag alone.
SRLeft ==
    /\ pc = "sr_left"
    /\ sr.checkPosition >= 0
    /\ sr.continueSearchLeft = 1
    /\ \E f \in FaultPoints(1) :
          /\ faultLog' = Logged("range.read_left", f)
          /\ sr' = IF f = 1 \/ ~RecordReadable(outputFile, sr.checkPosition)
                   THEN [sr EXCEPT !.continueSearchLeft = 0]
                   ELSE IF compareFunction(sb.searchKey,
                               RecordAt(outputFile, sr.checkPosition)) = 0
                   THEN [sr EXCEPT !.rangeStart = sr.checkPosition,
                                   !.checkPosition = @ - 1]
                   ELSE [sr EXCEPT !.continueSearchLeft = 0]
    /\ UNCHANGED <<op, env, report, cut, heap, pc, inputFile, outputExists, outputFile,
                   listExists, metaWritten, metaOnDisk, nodes, nodesCreated,
                   metadata, returnValue, build, flat, bub, ms, mg, sb, listIO>>

\* Lines 3958-3962: the left expansion is over: start the right expansion
\* above the match.
SRLeftDone ==
    /\ pc = "sr_left"
    /\ ~(sr.checkPosition >= 0 /\ sr.continueSearchLeft = 1)
    /\ sr' = [sr EXCEPT !.rangeEnd = sr.firstMatch,
                        !.checkPosition = sr.firstMatch + 1]
    /\ pc' = "sr_right"
    /\ UNCHANGED <<op, env, report, cut, heap, faultLog, inputFile, outputExists, outputFile, listExists,
                   metaWritten, metaOnDisk, nodes, nodesCreated, metadata,
                   returnValue, build, flat, bub, ms, mg, sb, listIO>>

\* Lines 3963-3978: one step of the right expansion; a failed read stops
\* the expansion and leaves the error flag alone.
SRRight ==
    /\ pc = "sr_right"
    /\ sr.checkPosition < sr.totalRecords
    /\ sr.continueSearchRight = 1
    /\ \E f \in FaultPoints(1) :
          /\ faultLog' = Logged("range.read_right", f)
          /\ sr' = IF f = 1 \/ ~RecordReadable(outputFile, sr.checkPosition)
                   THEN [sr EXCEPT !.continueSearchRight = 0]
                   ELSE IF compareFunction(sb.searchKey,
                               RecordAt(outputFile, sr.checkPosition)) = 0
                   THEN [sr EXCEPT !.rangeEnd = sr.checkPosition,
                                   !.checkPosition = @ + 1]
                   ELSE [sr EXCEPT !.continueSearchRight = 0]
    /\ UNCHANGED <<op, env, report, cut, heap, pc, inputFile, outputExists, outputFile,
                   listExists, metaWritten, metaOnDisk, nodes, nodesCreated,
                   metadata, returnValue, build, flat, bub, ms, mg, sb, listIO>>

\* The range size without the + 1 of an inclusive range.
MatchCountExclusive(rangeStart, rangeEnd) == rangeEnd - rangeStart

\* Line 3990: the number of records in the inclusive range.
MatchCount(rangeStart, rangeEnd) == rangeEnd - rangeStart + 1

\* Lines 3981-4002: set the positions and return the match count.
SRReturn ==
    /\ pc = "sr_right"
    /\ ~(sr.checkPosition < sr.totalRecords /\ sr.continueSearchRight = 1)
    /\ sr' = [sr EXCEPT !.startPosition = sr.rangeStart,
                        !.endPosition = sr.rangeEnd,
                        !.returnValue = MatchCount(sr.rangeStart, sr.rangeEnd)]
    /\ heap' = Free(heap, RangeBuffers)
    /\ pc' = "searched"
    /\ UNCHANGED <<op, env, report, cut, faultLog, inputFile, outputExists, outputFile, listExists,
                   metaWritten, metaOnDisk, nodes, nodesCreated, metadata,
                   returnValue, build, flat, bub, ms, mg, sb, listIO>>

\* --------------------------------- SearchInReport2 and SearchInReport5
\* Lines 2644 and 2846: the test that selects the FOUND branch.
FoundBranch(searchResult, startPos) == searchResult = 1 /\ startPos >= 0

\* Lines 2656-2694: the records the FOUND branch lists: those read one
\* after the other from startPos while the position is at most endPos.
RECURSIVE ListedFrom(_, _, _, _, _)
ListedFrom(store, currentPos, endPos, reads, f) ==
    IF currentPos <= endPos /\ RecordReadable(store, currentPos)
                            /\ reads + 1 # f
    THEN <<RecordAt(store, currentPos)>>
             \o ListedFrom(store, currentPos + 1, endPos, reads + 1, f)
    ELSE <<>>

\* Lines 2639-2740 and 2841-3013: the caller of SearchBinaryRange for a
\* search by key: with searchResult == 1 and startPos >= 0 it prints FOUND,
\* opens the file (1) and lists the records of the range (reads 2, 3, ...);
\* otherwise it prints NOT FOUND.
SearchInReport ==
    /\ pc = "searched"
    /\ sr.active
    /\ \E f \in FaultPoints(1 + Len(outputFile)) :
       LET searchResult == sr.returnValue
           startPos == sr.startPosition
           endPos == sr.endPosition
       IN /\ f # 0 => FoundBranch(searchResult, startPos)
          /\ f > 1 => f - 1 <= endPos - startPos + 1
          /\ faultLog' = Logged(IF f = 1 THEN "report.open"
                                ELSE "report.read", f)
          /\ report' =
                IF FoundBranch(searchResult, startPos)
                THEN [branch |-> "FOUND",
                      listed |-> IF f = 1 \/ ~outputExists THEN <<>>
                                 ELSE ListedFrom(outputFile, startPos, endPos,
                                                 1, f)]
                ELSE [branch |-> "NOT FOUND", listed |-> <<>>]
    /\ pc' = "reported"
    /\ UNCHANGED <<op, env, cut, heap, inputFile, outputExists, outputFile,
                   listExists, metaWritten, metaOnDisk, nodes, nodesCreated,
                   metadata, returnValue, build, flat, bub, ms, mg, sb, sr,
                   listIO>>

Next ==
    \/ SearchBinaryCall \/ SBEnter \/ SBProbe \/ SBReturn \/ SearchBinaryDone
    \/ SearchBinaryRangeCall \/ SRAfterSearch \/ SRLeft \/ SRLeftDone
    \/ SRRight \/ SRReturn \/ SearchInReport
    \/ SortMergeDispatch \/ MergeListCall \/ MSEnter \/ MSFindTail
    \/ MSRoundBegin \/ MSPair \/ MGInit \/ MGStep \/ MGReturn \/ MSAppend
    \/ MSRoundEnd \/ MSReturn \/ SortMergeWriteBack \/ SortMergeReturn
    \/ MergeListReturn
    \/ BuildOpen \/ BuildAppend \/ BuildFinish
    \/ FlattenOpen \/ FlattenStep \/ FlattenFinish
    \/ RoundTripFlatten \/ RoundTripReturn
    \/ SortBubbleDispatch \/ BubblePassBegin \/ BubbleInner
    \/ BubblePassEnd \/ BubbleSortDone \/ SortBubbleReturn

Spec == Init /\ [][Next]_vars

\* The program is one thread that runs until it returns.
FairSpec == Spec /\ WF_vars(Next)

\* Stores of at most ShortLen records over two keys, for the runs in which
\* I/O calls may fail or the list file is malformed.
ShortStores == {Numbered(keys) : keys \in BoundedSeq(1..2, ShortLen)}

\* Any I/O call of the run may fail.
InitFaulty == InitWith(ShortStores, {[faulty |-> TRUE, damage |-> NoDamage]})

SpecFaulty == InitFaulty /\ [][Next]_vars

\* No I/O call fails; the list file handed to ConvertLinkedListToFile or
\* to MergeSortLinkedListIterative may be malformed.
InitDamaged ==
    InitWith(ShortStores,
             {[faulty |-> FALSE, damage |-> d] : d \in Damages(ShortLen)})

SpecDamaged == InitDamaged /\ [][Next]_vars /\ WF_vars(Next)

\* ===================================================== properties
IsSortedStore(store) ==
    \A i \in 1..(Len(store) - 1) : compareFunction(store[i], store[i + 1]) <= 0

Occurrences(store, r) == Cardinality({i \in 1..Len(store) : store[i] = r})

IsPermutation(a, b) ==
    /\ Len(a) = Len(b)
    /\ \A i \in 1..Len(a) : Occurrences(a, a[i]) = Occurrences(b, a[i])

SortedScenario == <<<<1, 0>>, <<2, 0>>, <<3, 0>>, <<4, 0>>, <<5, 0>>>>

SortMergeReturned == op = "SortMerge" /\ pc = "done"
SortBubbleReturned == op = "SortBubble" /\ pc = "done"

\* C1: for every input store of at least 2 records, when SortMerge has
\* returned its output store exists and is non-decreasing under the
\* comparator; the store [5,3,1,4,2] gives [1,2,3,4,5].
C1_MergeOutputSorted ==
    (SortMergeReturned /\ Len(inputFile) >= 2) =>
        /\ outputExists
        /\ IsSortedStore(outputFile)
        /\ inputFile = ScenarioStore => outputFile = SortedScenario

C1_Witness ==
    /\ SortMergeReturned
    /\ inputFile = ScenarioStore
    /\ outputFile = SortedScenario
    /\ ms.iteration = 3

\* C2: for every input store of at least 2 records, when SortBubble has
\* returned its output store exists and is non-decreasing under the
\* comparator, pass p having compared only the first nodeCount-p-1 pairs.
C2_BubbleOutputSorted ==
    (SortBubbleReturned /\ Len(inputFile) >= 2) =>
        /\ outputExists
        /\ IsSortedStore(outputFile)
        /\ inputFile = ScenarioStore => outputFile = SortedScenario

C2_Witness ==
    /\ SortBubbleReturned
    /\ inputFile = ScenarioStore
    /\ outputFile = SortedScenario
    /\ bub.outerIndex >= 3

SortReturned == op \in {"SortBubble", "SortMerge"} /\ pc = "done"

\* C3: when SortBubble or SortMerge has returned, the output store exists
\* and is a permutation of the input store (no record added, dropped or
\* duplicated), for every input store.
C3_OutputsArePermutations ==
    SortReturned => (outputExists /\ IsPermutation(outputFile, inputFile))

\* C4: Build followed directly by Flatten returns n from both operations
\* and leaves an output store equal to the input store, for every n >= 0.
C4_RoundTrip ==
    (op = "RoundTrip" /\ pc = "done") =>
        /\ nodesCreated = Len(inputFile)
        /\ returnValue = Len(inputFile)
        /\ outputExists
        /\ outputFile = inputFile

C4_Witness ==
    /\ op = "RoundTrip"
    /\ pc = "done"
    /\ Len(inputFile) >= 3
    /\ ~IsSortedStore(inputFile)
    /\ outputFile = inputFile
    /\ returnValue = Len(inputFile)

\* Positions of the store whose record compares equal to the key.
KeyMatches(store, key) ==
    {p \in 0..(Len(store) - 1) : compareFunction(key, store[p + 1]) = 0}

\* C5: on a sorted store SearchBinary returns 1 and a position in
\* [0, totalRecords) whose record compares equal to the key when some
\* record does, and returns 0 with resultPosition -1 when none does.
C5_SearchBinaryPoint ==
    (pc = "sb_returned" /\ outputExists /\ IsSortedStore(outputFile)) =>
        IF KeyMatches(outputFile, sb.searchKey) # {}
        THEN /\ sb.returnValue = 1
             /\ sb.resultPosition \in KeyMatches(outputFile, sb.searchKey)
        ELSE /\ sb.returnValue = 0
             /\ sb.resultPosition = NONE

C5_Witness ==
    /\ pc = "sb_returned"
    /\ outputExists
    /\ IsSortedStore(outputFile)
    /\ Len(outputFile) >= 4
    /\ sb.returnValue = 1
    /\ sb.reads >= 2
    /\ sb.resultPosition \in KeyMatches(outputFile, sb.searchKey)

\* C6: on a sorted store holding k >= 1 records equal to the key,
\* SearchBinaryRange returns k and the inclusive range [start, end] of
\* exactly the matching positions; on an all-equal store it is [0, n-1].
C6_SearchBinaryRange ==
    (/\ pc = "searched"
     /\ sr.active
     /\ outputExists
     /\ IsSortedStore(outputFile)
     /\ KeyMatches(outputFile, sb.searchKey) # {}) =>
        LET matches == KeyMatches(outputFile, sb.searchKey)
            k == Cardinality(matches)
        IN /\ sr.returnValue = k
           /\ sr.endPosition - sr.startPosition + 1 = k
           /\ \A p \in sr.startPosition..sr.endPosition : p \in matches
           /\ (sr.startPosition - 1) \notin matches
           /\ (sr.endPosition + 1) \notin matches
           /\ k = Len(outputFile) =>
                  (sr.startPosition = 0 /\ sr.endPosition = Len(outputFile) - 1)

C6_Witness ==
    /\ pc = "searched"
    /\ sr.active
    /\ IsSortedStore(outputFile)
    /\ sr.returnValue >= 2
    /\ sr.startPosition > 0
    /\ sr.endPosition < Len(outputFile) - 1
    /\ sr.startPosition < sr.firstMatch
    /\ sr.firstMatch < sr.endPosition

WellFormedList ==
    LET m == metaOnDisk
        chain == ChainFrom(nodes, m.headOffset, m.nodeCount + 1)
    IN /\ metaWritten
       /\ (m.nodeCount = 0) <=> (m.headOffset = NONE /\ m.tailOffset = NONE)
       /\ Len(chain) = m.nodeCount
       /\ \A i, j \in 1..Len(chain) : chain[i] = chain[j] => i = j
       /\ m.nodeCount > 0 =>
              /\ chain[Len(chain)] = m.tailOffset
              /\ nodes[m.tailOffset].nextOffset = NONE

\* C7: after a successful Build, after the sort phase of SortBubble and
\* after the sort phase of SortMerge with its write-back of head and tail,
\* the list file is well formed: nodeCount is 0 iff head and tail are -1,
\* and the chain from the head visits exactly nodeCount distinct nodes,
\* the last being the tail with nextOffset -1.
C7_ListWellFormed ==
    pc \in {"built", "flatten"} => WellFormedList

C7_Witness ==
    /\ op = "SortMerge"
    /\ pc = "flatten"
    /\ metaOnDisk.nodeCount >= 3
    /\ metaOnDisk.headOffset # build.metadata.headOffset
    /\ metaOnDisk.tailOffset # build.metadata.tailOffset
    /\ WellFormedList

\* C8: for an empty input store Build returns 0 and both sorts report
\* success (not the error result -1) with an output store of 0 records
\* written by Flatten.
C8_EmptyStoreSortsSucceed ==
    (SortReturned /\ Len(inputFile) = 0) =>
        /\ nodesCreated = 0
        /\ returnValue # -1
        /\ outputExists
        /\ Len(outputFile) = 0

\* C9: for every input store already non-decreasing under the comparator,
\* SortBubble and SortMerge each leave an output store equal to the input,
\* record for record.
C9_SortedInputUnchanged ==
    (SortReturned /\ IsSortedStore(inputFile)) =>
        (outputExists /\ outputFile = inputFile)

\* C10: for a single-record store both sorts return 1 and the output holds
\* that record; MergeSortLinkedListIterative with nodeCount <= 1 succeeds
\* without list I/O and returns the input head (and the head as tail when
\* nodeCount = 1); SearchBinary for the record's key on the output returns
\* found at position 0.
C10_SingleRecord ==
    /\ (SortReturned /\ Len(inputFile) = 1) =>
           (returnValue = 1 /\ outputExists /\ outputFile = inputFile)
    /\ (op = "MergeList" /\ pc = "done") =>
           /\ returnValue = 1
           /\ listIO = 0
           /\ ms.sortedHeadOffset = metadata.headOffset
           /\ ms.sortedTailOffset =
                  (IF metadata.nodeCount = 1 THEN metadata.headOffset ELSE NONE)
    /\ (/\ op \in {"SortBubble", "SortMerge"}
        /\ pc = "sb_returned"
        /\ Len(inputFile) = 1
        /\ sb.searchKey[1] = inputFile[1][1]) =>
           (sb.returnValue = 1 /\ sb.resultPosition = 0)

C10_Witness ==
    /\ op = "SortMerge"
    /\ pc = "sb_returned"
    /\ Len(inputFile) = 1
    /\ returnValue = 1
    /\ outputFile = inputFile
    /\ sb.searchKey[1] = inputFile[1][1]
    /\ sb.resultPosition = 0

\* The sites of the I/O calls of the merge-sort phase of SortMerge.
MergeSortSites == {"merge.read", "merge.write", "merge.write_back"}

\* C11: when a node read, a header write of a merge or run-linking step,
\* or the write-back of the sorted head and tail has failed, SortMerge
\* returns -1.
C11_MergePhaseFailureAborts ==
    (SortMergeReturned /\ faultLog \cap MergeSortSites # {}) =>
        returnValue = -1

\* The sites of the I/O calls of the bubble-sort passes.
BubbleSites == {"bubble.read", "bubble.write"}

BubbleFailed == op = "SortBubble" /\ faultLog \cap BubbleSites # {}

\* C12: once a read or a write of the bubble-sort passes has failed, the
\* list file is not accessed again (no comparison, no swap), Flatten is
\* not run, no output store is produced and SortBubble returns -1.
C12_BubbleFailureAborts ==
    /\ [](BubbleFailed =>
             /\ bub.errorOccurred = 1
             /\ pc \notin {"flatten", "flatten_loop", "flattened"}
             /\ ~outputExists
             /\ pc \notin {"bubble_outer", "bubble_inner"} => returnValue = -1)
    /\ [][BubbleFailed => (nodes' = nodes /\ listIO' = listIO)]_vars

\* The second write of a swap failed: two nodes hold the same payload and
\* SortBubble has returned -1 without an output store.
C12_Witness ==
    /\ SortBubbleReturned
    /\ faultLog = {"bubble.write"}
    /\ returnValue = -1
    /\ ~outputExists
    /\ \E a, b \in DOMAIN nodes : a # b /\ nodes[a].data = nodes[b].data

\* The sites of the I/O calls of CreateLinkedListFromFile.
BuildSites ==
    {"build.open_input", "build.open_list", "build.read_input",
     "build.write_header", "build.write_payload", "build.patch",
     "build.write_metadata"}

\* C13: when opening or reading the source store or any write to the list
\* file has failed during Build, CreateLinkedListFromFile returns -1.
C13_BuildFailureReturnsError ==
    (pc = "built" /\ faultLog \cap BuildSites # {}) => nodesCreated = -1

\* C14: SearchBinary returns 0 for an empty store without reading a
\* record; it returns -1 with resultPosition -1 when the file cannot be
\* opened or a record read has failed, never 0 or 1; and resultPosition
\* is a position exactly when the result is 1.
C14_SearchBinaryOutcomes ==
    pc = "sb_returned" =>
        /\ sb.returnValue \in {-1, 0, 1}
        /\ (sb.returnValue = 1) <=> (sb.resultPosition # NONE)
        /\ (outputExists /\ Len(outputFile) = 0 /\ "search.open" \notin faultLog)
               => (sb.returnValue = 0 /\ sb.reads = 0)
        /\ (~outputExists \/ faultLog \cap {"search.open", "search.read"} # {})
               => (sb.returnValue = -1 /\ sb.resultPosition = NONE)

\* The second probe of a search failed to read its record.
C14_Witness ==
    /\ pc = "sb_returned"
    /\ outputExists
    /\ "search.read" \in faultLog
    /\ sb.reads >= 2
    /\ sb.returnValue = -1
    /\ sb.resultPosition = NONE

\* C15: when a record read has failed during the left or the right
\* expansion, SearchBinaryRange returns -1.
C15_RangeReadFailureAborts ==
    (/\ pc = "searched"
     /\ sr.active
     /\ faultLog \cap {"range.read_left", "range.read_right"} # {}) =>
        sr.returnValue = -1

BubblePhase == pc \in {"bubble_outer", "bubble_inner"}
MergePhase ==
    /\ op = "SortMerge"
    /\ pc \in {"ms_enter", "ms_findtail", "ms_round", "ms_pairs", "mg_init",
               "mg_loop", "ms_append", "ms_returned"}

\* C16: every step of the bubble-sort phase and of the merge-sort phase
\* (write-back included) keeps the set of node offsets, nodeCount and
\* recordSize of the metadata and every node's dataSize; a step of the
\* bubble-sort phase keeps every prevOffset and nextOffset, a step of the
\* merge-sort phase keeps every payload.
C16_SortKeepsStructure ==
    [][(BubblePhase \/ MergePhase) =>
          /\ DOMAIN nodes' = DOMAIN nodes
          /\ MetadataRead'.nodeCount = MetadataRead.nodeCount
          /\ MetadataRead'.recordSize = MetadataRead.recordSize
          /\ metadata'.nodeCount = metadata.nodeCount
          /\ metadata'.recordSize = metadata.recordSize
          /\ \A o \in DOMAIN nodes :
                 /\ nodes'[o].dataSize = nodes[o].dataSize
                 /\ BubblePhase => /\ nodes'[o].prevOffset = nodes[o].prevOffset
                                   /\ nodes'[o].nextOffset = nodes[o].nextOffset
                 /\ MergePhase => nodes'[o].data = nodes[o].data]_vars

\* The merge-sort phase has relinked a list of three nodes or more: every
\* payload is where Build wrote it and the head has moved.
C16_Witness ==
    /\ op = "SortMerge"
    /\ pc = "flatten"
    /\ Len(inputFile) >= 3
    /\ DOMAIN nodes = {NodeOffset(i) : i \in 0..(Len(inputFile) - 1)}
    /\ \A i \in 0..(Len(inputFile) - 1) :
           nodes[NodeOffset(i)].data = inputFile[i + 1]
    /\ metaOnDisk.headOffset # NodeOffset(0)
    /\ nodes[NodeOffset(0)].nextOffset # NodeOffset(1)

RECURSIVE CeilLog2From(_, _, _)
CeilLog2From(n, k, power) ==
    IF power >= n THEN k ELSE CeilLog2From(n, k + 1, 2 * power)
CeilLog2(n) == CeilLog2From(n, 0, 1)

RECURSIVE PowerOfTwo(_)
PowerOfTwo(k) == IF k = 0 THEN 1 ELSE 2 * PowerOfTwo(k - 1)

\* C17: on the list Build wrote for a store of n >= 2 records, without
\* I/O failure, MergeSortLinkedListIterative always returns, with success,
\* after exactly ceil(log2(n)) rounds; round r runs with sublistSize
\* 2^(r-1) and the loop ends at the first sublistSize >= n.
C17_RoundsAreCeilLog2 ==
    /\ [](op = "SortMerge" =>
             /\ pc \in {"ms_pairs", "mg_init", "mg_loop", "ms_append"} =>
                    /\ ms.sublistSize = PowerOfTwo(ms.iteration - 1)
                    /\ ms.sublistSize < ms.nodeCount
             /\ pc = "ms_round" => ms.sublistSize = PowerOfTwo(ms.iteration)
             /\ (pc = "ms_returned" /\ ms.nodeCount >= 2) =>
                    /\ ms.success = 1
                    /\ ms.nodeCount = Len(inputFile)
                    /\ ms.iteration = CeilLog2(ms.nodeCount)
                    /\ ms.sublistSize = PowerOfTwo(ms.iteration)
                    /\ ms.sublistSize >= ms.nodeCount)
    /\ (op = "SortMerge" /\ pc = "ms_enter") ~> (pc = "ms_returned")

\* Five nodes are sorted in three rounds, the last sublistSize being 8.
C17_Witness ==
    /\ op = "SortMerge"
    /\ pc = "ms_returned"
    /\ ms.nodeCount = 5
    /\ ms.success = 1
    /\ ms.iteration = 3
    /\ ms.sublistSize = 8

\* C18: MergeSortLinkedListIterative returns on every list it is called
\* on, a list whose nextOffset chain is cyclic included.
\* (On a cyclic chain the loop of lines 1024-1037 has no exit: tempPos
\* never becomes -1 and foundEnd stays 0. On a node that points to itself
\* every iteration reads the same node and leaves tempPos and currentTail
\* as they are, so the program state repeats for ever.)
C18_MergeSortTerminates ==
    (op = "MergeList" /\ pc = "ms_enter") ~> (pc = "ms_returned")

\* C19: without I/O failure ConvertLinkedListToFile always returns; it
\* has then written the payloads of the first min(nodeCount, L) nodes of
\* the chain from the head, in chain order, L being the length of the
\* chain up to -1, and returns that count, which is never -1 and never
\* more than nodeCount, also when the chain is shorter than nodeCount or
\* cyclic.
C19_FlattenWritesCappedChain ==
    /\ []((op = "RoundTrip" /\ pc \in {"flattened", "done"}) =>
             LET chain == ChainFrom(nodes, flat.metadata.headOffset,
                                    flat.metadata.nodeCount)
             IN /\ flat.metadata.nodeCount = Len(inputFile)
                /\ flat.recordsWritten = Len(chain)
                /\ flat.recordsWritten <= flat.metadata.nodeCount
                /\ outputExists
                /\ outputFile = [i \in 1..Len(chain) |-> nodes[chain[i]].data]
                /\ pc = "done" => returnValue = Len(chain))
    /\ (op = "RoundTrip" /\ pc = "flatten") ~> (pc = "flattened")

\* The chain ends before nodeCount nodes: the smaller count is returned.
C19_Witness ==
    /\ op = "RoundTrip"
    /\ pc = "done"
    /\ env.damage # NoDamage
    /\ env.damage.next = NONE
    /\ returnValue >= 1
    /\ returnValue < metaOnDisk.nodeCount
    /\ Len(outputFile) = returnValue

\* C20: no step of SortBubble or SortMerge, whether the sort succeeds or
\* fails, changes the input record store; the sorted records go to the
\* output store, a different file.
C20_InputStoreUntouched ==
    [][(op \in {"SortBubble", "SortMerge"}) => (inputFile' = inputFile)]_vars

\* A sort failed while the conversion was writing the output store: the
\* output holds a part of the records, the input store all of them.
C20_Witness ==
    /\ SortReturned
    /\ returnValue = -1
    /\ "flatten.write_record" \in faultLog
    /\ outputExists
    /\ Len(inputFile) >= 2
    /\ Len(outputFile) >= 1
    /\ Len(outputFile) < Len(inputFile)

\* C21: at every point of Build, the sort phases, Flatten and the searches
\* at most 3 record buffers are allocated and not yet freed, whatever the
\* number of records: at most 2 belong to a sort (bubble sort or bounded
\* merge), at most 1 to Build, to Flatten and to a search; the most ever
\* alive at once is the 2 of the bubble sort and the 1 of the conversion
\* it calls.  Every routine has freed its buffers when it returns, on
\* success and on failure.
C21_BufferBounds ==
    /\ heap.peak <= 3
    /\ Cardinality(heap.live) <= heap.peak
    /\ (BubblePhase \/ MergePhase) => Cardinality(heap.live) <= 2
    /\ pc \in {"build", "sb_loop", "sr_left", "sr_right"} =>
           Cardinality(heap.live) <= 1
    /\ pc = "flatten_loop" =>
           heap.live \subseteq (FlattenBuffers \cup BubbleBuffers)
    /\ pc \in {"built", "flatten"} => heap.live \cap BuildBuffers = {}
    /\ pc = "flattened" => heap.live \cap FlattenBuffers = {}
    /\ pc = "ms_append" => heap.live \cap MergeBuffers = {}
    /\ pc = "sb_returned" => heap.live \cap SearchBuffers = {}
    /\ pc \in {"done", "searched"} => heap.live = {}

\* A bubble sort of three records has returned -1 after a failed write of
\* the conversion: three buffers were alive at once and none is left.
C21_Witness ==
    /\ SortBubbleReturned
    /\ Len(inputFile) = 3
    /\ returnValue = -1
    /\ "flatten.write_record" \in faultLog
    /\ heap.peak = 3
    /\ heap.live = {}

\* C22: when CreateLinkedListFromFile returns -1 it has not written the
\* metadata block at offset 0 of the list file, and the nodes it had
\* appended before the failure are still in the file.
C22_NoMetadataOnBuildFailure ==
    (pc = "built" /\ nodesCreated = -1) =>
        /\ ~metaWritten
        /\ metaOnDisk = EmptyMetadata
        /\ Cardinality(DOMAIN nodes) = build.metadata.nodeCount

\* Build returned -1 after a failed payload write behind two appended
\* nodes: the nodes are in the file, the metadata block is not.
C22_Witness ==
    /\ pc = "built"
    /\ nodesCreated = -1
    /\ "build.write_payload" \in faultLog
    /\ Cardinality(DOMAIN nodes) = 2
    /\ ~metaWritten

\* C23: the bubble-sort phase begins no pass after a pass without a swap
\* and makes at most nodeCount - 1 passes; on a list that is already
\* non-decreasing it makes exactly one pass, which reads every adjacent
\* pair once and writes no payload.
C23_BubblePasses ==
    /\ [](BubblePhase =>
             /\ bub.outerIndex <= metadata.nodeCount - 1
             /\ ((pc = "bubble_outer" /\ bub.outerIndex >= 1) =>
                    (bub.sortComplete = 1 <=> bub.swapOccurred = 0))
             /\ ((pc = "bubble_outer" /\ IsSortedStore(inputFile)) =>
                    (/\ bub.outerIndex <= 1
                     /\ (bub.outerIndex = 1 =>
                            (/\ bub.sortComplete = 1
                             /\ listIO = 2 * (metadata.nodeCount - 1))))))
    /\ [][BubblePhase =>
            (/\ (pc = "bubble_outer" /\ pc' = "bubble_inner") =>
                    (bub.sortComplete = 0 /\ bub'.swapOccurred = 0)
             /\ IsSortedStore(inputFile) => (nodes' = nodes)
             /\ (pc' = "flatten") =>
                    (/\ bub.outerIndex >= 1
                     /\ (\/ bub.sortComplete = 1
                         \/ bub.outerIndex = metadata.nodeCount - 1)))
          ]_vars

\* The bubble sort of the sorted six-record store is over after one pass
\* of five comparisons.
C23_Witness ==
    /\ op = "SortBubble"
    /\ pc = "flatten"
    /\ inputFile = SortedStore
    /\ bub.outerIndex = 1
    /\ bub.sortComplete = 1
    /\ listIO = 10

Offsets(chain) == {chain[i] : i \in 1..Len(chain)}

\* C24: a bounded merge of sublist A (a counted nodes) and the following
\* sublist B (b counted nodes) takes the nodes of each in their order up
\* to exactly a and b, reads and writes only nodes of A and B, leaves every
\* node behind B as it was, and returns a run of exactly the a + b nodes
\* of A and B whose tail has nextOffset -1; the start of the next pair,
\* cached before the merge, is the node that followed the last node of B.
C24_BoundedMerge ==
    /\ [](pc = "mg_init" =>
            (/\ Len(cut.a) = mg.left1Count
             /\ Len(cut.b) = mg.left2Count
             /\ mg.left1Count = ms.sublistSize
             /\ mg.left2Count \in 1..ms.sublistSize
             /\ nodes[cut.a[Len(cut.a)]].nextOffset = mg.left2Offset
             /\ nodes[cut.b[Len(cut.b)]].nextOffset = ms.nextPairStart
             /\ Offsets(cut.later) \cap (Offsets(cut.a) \cup Offsets(cut.b)) = {}
             /\ (ms.nextPairStart # NONE) => (cut.later[1] = ms.nextPairStart)))
    /\ [](pc \in {"mg_init", "mg_loop"} =>
            (/\ mg.count1 <= mg.left1Count
             /\ mg.count2 <= mg.left2Count
             /\ (mg.count1 < mg.left1Count) =>
                    (mg.current1 = cut.a[mg.count1 + 1])
             /\ (mg.count2 < mg.left2Count) =>
                    (mg.current2 = cut.b[mg.count2 + 1])
             /\ cut.touched \subseteq (Offsets(cut.a) \cup Offsets(cut.b))))
    /\ []((pc = "ms_append" /\ cut.b # <<>>) =>
            LET run == ChainFrom(nodes, ms.mergedHead, ms.nodeCount + 1)
            IN /\ mg.count1 = Len(cut.a)
               /\ mg.count2 = Len(cut.b)
               /\ Len(run) = Len(cut.a) + Len(cut.b)
               /\ Offsets(run) = Offsets(cut.a) \cup Offsets(cut.b)
               /\ run[Len(run)] = ms.mergedTail
               /\ nodes[ms.mergedTail].nextOffset = NONE
               /\ cut.touched = Offsets(run)
               /\ ChainFrom(nodes, ms.nextPairStart, ms.nodeCount)
                      = cut.later)
    /\ [][(pc \in {"mg_init", "mg_loop"}) =>
            (\A o \in Offsets(cut.later) : (nodes'[o] = nodes[o]))]_vars

\* A merge of two sublists of two nodes with a pair behind them has
\* returned a run that interleaves the two sublists.
C24_Witness ==
    /\ pc = "ms_append"
    /\ Len(cut.a) = 2
    /\ Len(cut.b) = 2
    /\ Len(cut.later) >= 2
    /\ ms.errorOccurred = 0
    /\ ChainFrom(nodes, ms.mergedHead, ms.nodeCount) =
           <<cut.b[1], cut.a[1], cut.b[2], cut.a[2]>>

\* C25: on a well-formed list of two nodes or more and without I/O
\* failure MergeSortLinkedListIterative never takes a structural-error
\* exit: every round ends with numMerges >= 1, the round counter stays
\* below the cap, the error flag stays 0 and the call succeeds.
C25_NoStructuralError ==
    (MergePhase /\ metadata.nodeCount >= 2) =>
        /\ ms.errorOccurred = 0
        /\ ms.iteration < maxIterations
        /\ ms.iteration <= CeilLog2(metadata.nodeCount)
        /\ mg.errorOccurred = 0
        /\ (pc = "ms_pairs" /\ ms.currentPos = NONE) => ms.numMerges >= 1
        /\ (pc = "ms_round" /\ ms.iteration >= 1) => ms.numMerges >= 1
        /\ pc = "ms_returned" => ms.success = 1

\* The first round over five nodes is complete: two merged pairs and the
\* unpaired fifth node make three appended runs.
C25_Witness ==
    /\ op = "SortMerge"
    /\ pc = "ms_round"
    /\ ms.nodeCount = 5
    /\ ms.iteration = 1
    /\ ms.numMerges = 3
    /\ ms.errorOccurred = 0

\* The chain is cut into consecutive runs of size nodes (the last may be
\* shorter), each non-decreasing under compareFunction.
SortedRuns(nds, chain, size) ==
    \A i \in 1..(Len(chain) - 1) :
        (i % size # 0) =>
            compareFunction(nds[chain[i]].data, nds[chain[i + 1]].data) <= 0

\* C26: at the start of every round of MergeSortLinkedListIterative with
\* sublist size s, and after the round with the doubled size, the chain
\* from the cached head visits all nodeCount nodes, is cut into
\* consecutive non-decreasing runs of s nodes (the last may be shorter),
\* and the cached tail is its last node.
C26_RoundInvariant ==
    (op = "SortMerge" /\ pc = "ms_round") =>
        LET chain == ChainFrom(nodes, ms.currentHead, ms.nodeCount + 1)
        IN /\ Len(chain) = ms.nodeCount
           /\ Offsets(chain) = DOMAIN nodes
           /\ SortedRuns(nodes, chain, ms.sublistSize)
           /\ chain[Len(chain)] = ms.currentTail
           /\ nodes[ms.currentTail].nextOffset = NONE

\* Two rounds over seven nodes are complete: runs of four, and a cached
\* tail that is not the tail Build left.
C26_Witness ==
    /\ op = "SortMerge"
    /\ pc = "ms_round"
    /\ ms.nodeCount = 7
    /\ ms.sublistSize = 4
    /\ ms.currentTail # metaOnDisk.tailOffset
    /\ ms.currentHead # metaOnDisk.headOffset
    /\ ~SortedRuns(nodes, ChainFrom(nodes, ms.currentHead, 7), 8)

\* The record r put behind every record of a sorted store that does not
\* compare greater.
RECURSIVE InsertStable(_, _)
InsertStable(sorted, r) ==
    IF sorted = <<>> THEN <<r>>
    ELSE IF compareFunction(sorted[1], r) <= 0
    THEN <<sorted[1]>> \o InsertStable(Tail(sorted), r)
    ELSE <<r>> \o sorted

\* The stable sort of a store: records that compare equal keep their order.
RECURSIVE StableSorted(_)
StableSorted(store) ==
    IF store = <<>> THEN <<>>
    ELSE InsertStable(StableSorted(SubSeq(store, 1, Len(store) - 1)),
                      store[Len(store)])

\* C27: SortBubble and SortMerge are stable: the output of either is the
\* input sorted with records that compare equal in their input order, so
\* the two sorts write the same sequence for the same input.
C27_SortsAreStable ==
    (SortReturned /\ returnValue >= 1) => outputFile = StableSorted(inputFile)

\* A sort of the seven-record store, which holds each key two or three
\* times and out of order, has returned.
C27_Witness ==
    /\ SortReturned
    /\ returnValue = 7
    /\ inputFile = LongStore
    /\ outputFile = <<<<1, 4>>, <<1, 6>>, <<2, 1>>, <<2, 3>>, <<2, 7>>,
                      <<3, 2>>, <<3, 5>>>>

\* C28: after a successful MergeSortLinkedListIterative on a well-formed
\* list the backward links agree with the forward links: the returned
\* head has prevOffset -1, the returned tail has nextOffset -1, and the
\* successor of every node points back to it.
C28_BackwardLinksAgree ==
    (/\ pc = "ms_returned"
     /\ ms.success = 1
     /\ ms.sortedHeadOffset # NONE) =>
        /\ nodes[ms.sortedHeadOffset].prevOffset = NONE
        /\ nodes[ms.sortedTailOffset].nextOffset = NONE
        /\ \A x \in DOMAIN nodes :
               nodes[x].nextOffset # NONE =>
                   nodes[nodes[x].nextOffset].prevOffset = x
        /\ \A y \in DOMAIN nodes :
               nodes[y].prevOffset # NONE =>
                   nodes[nodes[y].prevOffset].nextOffset = y

\* The merge sort of the five-record scenario store has succeeded: the
\* node Build wrote first, with prevOffset -1, now points back to the
\* node of key 4.
C28_Witness ==
    /\ op = "SortMerge"
    /\ pc = "ms_returned"
    /\ ms.success = 1
    /\ inputFile = ScenarioStore
    /\ nodes[NodeOffset(0)].prevOffset = NodeOffset(3)
    /\ nodes[NodeOffset(0)].nextOffset = NONE

\* C29: when SortBubble or SortMerge returns, on success, after a failed
\* Build, a failed sort phase or a failed conversion and on the
\* single-record path, the temporary list file Build created is removed.
C29_TempFileRemoved ==
    SortReturned => ~listExists

\* SortMerge has returned -1 after a failed header write of the merge: the
\* list file Build had filled with three nodes is gone.
C29_Witness ==
    /\ SortMergeReturned
    /\ returnValue = -1
    /\ "merge.write" \in faultLog
    /\ Cardinality(DOMAIN nodes) = 3
    /\ ~listExists
    /\ ~outputExists

\* C30: whenever SearchBinaryRange has found at least one matching record
\* (it returned k >= 1 with startPosition >= 0) the caller takes its FOUND
\* branch and lists the records at startPosition..endPosition; it takes
\* the NOT FOUND branch only after a result of 0 or -1.
C30_FoundBranchTaken ==
    pc = "reported" =>
        /\ (sr.returnValue >= 1 /\ sr.startPosition >= 0) =>
               /\ report.branch = "FOUND"
               /\ report.listed = SubSeq(outputFile, sr.startPosition + 1,
                                         sr.endPosition + 1)
        /\ report.branch = "NOT FOUND" => sr.returnValue \in {0, -1}
====
